---- MODULE Spec2Model ----
(***************************************************************************)
(* Model of the two supervisors of the PageIndex web API:                  *)
(*   webapi/job_manager.py   JobManager  (the Job Supervisor)              *)
(*   webapi/chat_manager.py  ChatManager (the Chat Supervisor)             *)
(* Both run on one cooperative event loop: a step of the model is the code *)
(* a task runs between two suspension points (await).                      *)
(***************************************************************************)
EXTENDS Integers, Sequences, FiniteSets, TLC

(***************************************************************************)
(* Bounds of the model.                                                    *)
(***************************************************************************)
MaxJobs == 2
MaxEvents == 3
MaxBatch == 1
NClients == 2
MaxChatEvents == 4

JobIds == 1..MaxJobs
Clients == 1..NClients

(***************************************************************************)
(* models.py: JobStatus, JobStage.  progress.py: STAGE_ORDER,              *)
(* STAGE_PROGRESS (in percent), stage_rank.                                *)
(***************************************************************************)
JobStatus == {"QUEUED", "RUNNING", "COMPLETED", "FAILED", "CANCELLED"}

TerminalStatus == {"COMPLETED", "FAILED", "CANCELLED"}

STAGE_ORDER ==
  << "QUEUED", "PARSING_INPUT", "TOC_ANALYSIS", "INDEX_BUILD",
     "REFINEMENT", "SUMMARIZATION", "FINALIZING", "COMPLETED" >>

JobStage == { STAGE_ORDER[i] : i \in DOMAIN STAGE_ORDER }

stage_rank(stage) == (CHOOSE i \in DOMAIN STAGE_ORDER : STAGE_ORDER[i] = stage) - 1

STAGE_PROGRESS(stage) ==
  CASE stage = "QUEUED" -> 5
    [] stage = "PARSING_INPUT" -> 20
    [] stage = "TOC_ANALYSIS" -> 35
    [] stage = "INDEX_BUILD" -> 60
    [] stage = "REFINEMENT" -> 75
    [] stage = "SUMMARIZATION" -> 88
    [] stage = "FINALIZING" -> 95
    [] stage = "COMPLETED" -> 100

(***************************************************************************)
(* The stages a line or a log entry can signal: the stages of              *)
(* _SIGNAL_RULES, or "None" when no keyword occurs.                        *)
(***************************************************************************)
SignalStages ==
  { "FINALIZING", "SUMMARIZATION", "REFINEMENT", "INDEX_BUILD",
    "TOC_ANALYSIS", "PARSING_INPUT" }

(***************************************************************************)
(* An output line, as far as _consume_stream reads it: the stage           *)
(* stage_from_text finds in it, and the path after "tree structure saved   *)
(* to:" ("None" when the line has no such phrase or no path after it).     *)
(* The phrase is itself a FINALIZING keyword, so a line that carries a     *)
(* path signals FINALIZING.                                                *)
(***************************************************************************)
Paths == {"expected", "other"}

Lines ==
  [stage : SignalStages \cup {"None"}, saved : {"None"}]
    \cup [stage : {"FINALIZING"}, saved : Paths]

ReturnCodes == {0, 1}

\* job_manager.py: the cap of stdout_tail, the post-exit polls of the log
\* detector and of the log consumer.
StdoutTailMax == 300
ActivityMax == 400
DetectPostExitChecks == 2
LogPostExitPolls == 4

VARIABLES
  jobs,           \* JobManager.jobs: job id -> PersistedJob
  disk,           \* the job files of the store: job id -> PersistedJob
  active_job_id,  \* JobManager.active_job_id (0 is None)
  processes,      \* JobManager.processes: the job ids with an entry
  lock,           \* JobManager.lock: 0 free, c held by create_job call c
  procState,      \* the subprocess of a job: "none", "alive", "exited"
  resultAt,       \* the result files on disk, per job: a subset of Paths
  runPc,          \* where the _run_job task of a job is
  streamPc,       \* where the two _consume_stream tasks of a job are
  logPc,          \* where the _consume_log_file task of a job is
  post_exit_checks, \* _detect_log_file's counter, per job
  post_exit_polls,  \* _consume_log_file's counter, per job
  cancelPc,       \* where the cancel_job call on a job is
  terminated,     \* the jobs whose process cancel_job has sent terminate()
  createPc,       \* where the create_job call of a client is
  sessions,       \* ChatManager.sessions: session id -> PersistedChatSession
  sdisk,          \* the chat files of the store
  pipe,           \* the _run_pipeline task of a run: where it is, its session
  chatEvents,     \* the events published for a run, in emission order
  tasks,          \* ChatManager.tasks: the run ids with an entry
  listeners,      \* the listeners of a topic: its queues, in subscription order
  keys,           \* the topics that have a key in their listeners table
  queue,          \* the subscriber queue of a client on a topic
  published,      \* the number of events published on a topic
  received,       \* what a client has taken from its queue, in order
  store_files,    \* the files of the store directories: file -> what is written
  saving,         \* the save_job or save_session call under way
  call,           \* a call of a function of the retrieval: arguments, result
  chat_lock,      \* ChatManager.lock: the task inside "async with self.lock"
  events          \* inputs taken so far: jobs and sessions created, calls,
                  \* lines, log entries and answer chunks read, restarts

\* The files of the store, which both supervisors write.  The steps of the
\* supervisors see the store as disk and sdisk, the entities load_jobs and
\* load_sessions return; StoreSpec follows the files of a save.
storeVars == << store_files, saving >>

\* What the steps of the two supervisors leave alone: the files of a save
\* under way and the call of a function followed on its own.
libVars == << storeVars, call, chat_lock >>

jobState ==
  << jobs, disk, active_job_id, processes, lock, procState, resultAt, runPc, streamPc, logPc, post_exit_checks,
     post_exit_polls, cancelPc, terminated,
     createPc >>

jobVars == << jobState, libVars >>

chatState == << sessions, sdisk, pipe, chatEvents, tasks >>

chatVars == << chatState, libVars >>

brokerVars == << listeners, keys, queue, published, received >>

vars == << jobVars, chatVars, brokerVars, events >>

(***************************************************************************)
(* The listeners tables of the two supervisors.  The model follows one     *)
(* topic of each: "job" is the job id TopicJob of JobManager.listeners and *)
(* "chat" the key (TopicSession, TopicRun) of ChatManager.listeners.  An   *)
(* item of a queue is the event and the data _publish puts on it, and n,   *)
(* the place of the event among the events put on the queues of the topic. *)
(***************************************************************************)
Topics == {"job", "chat"}

TopicJob == 1

TopicSession == 1

TopicRun == 2

\* job_manager.py:412 and chat_manager.py:227: asyncio.Queue(maxsize=...)
JobQueueMax == 200

ChatQueueMax == 500

maxsize(t) == IF t = "job" THEN JobQueueMax ELSE ChatQueueMax

InitBroker ==
  /\ listeners = [t \in Topics |-> << >>]
  /\ keys = {}
  /\ queue = [t \in Topics |-> [c \in Clients |-> << >>]]
  /\ published = [t \in Topics |-> 0]
  /\ received = [t \in Topics |-> [c \in Clients |-> << >>]]

\* A new supervisor starts with an empty listeners table (job_manager.py:36,
\* chat_manager.py:53); the queues of the old one are gone with it.
NewListeners(t) ==
  /\ listeners' = [listeners EXCEPT ![t] = << >>]
  /\ keys' = keys \ {t}
  /\ queue' = [queue EXCEPT ![t] = [c \in Clients |-> << >>]]
  /\ received' = [received EXCEPT ![t] = [c \in Clients |-> << >>]]
  /\ UNCHANGED published

\* ChatManager._remove_session_state, lines 198-200: the keys of the removed
\* sessions are popped; the queues stay with their clients.
StaleKeysPopped(removed) ==
  /\ listeners' = IF TopicSession \in removed
                    THEN [listeners EXCEPT !["chat"] = << >>]
                    ELSE listeners
  /\ keys' = IF TopicSession \in removed THEN keys \ {"chat"} ELSE keys
  /\ UNCHANGED << queue, published, received >>

Range(seq) == { seq[i] : i \in DOMAIN seq }

\* the event and the data of a _publish call
Event(event, data) == [event |-> event, data |-> data]

\* the item of a queue: the n-th event put on the queues of its topic
Item(n, e) == [n |-> n, event |-> e.event, data |-> e.data]

\* put_nowait on a queue that is never full
put_nowait_Unbounded(q, item, size) == Append(q, item)

\* asyncio.Queue(maxsize=size).put_nowait(item) inside the try of _publish:
\* the queue after the call; QueueFull is raised on a full queue and passed
put_nowait(q, item, size) ==
  IF Len(q) >= size THEN q ELSE Append(q, item)

\* get() without the order of the queue: the newest item first
get_Newest(q) ==
  [ item |-> q[Len(q)], rest |-> SubSeq(q, 1, Len(q) - 1) ]

\* asyncio.Queue.get() of a queue that holds an item: a FIFO
get(q) == [ item |-> Head(q), rest |-> Tail(q) ]

\* _publish: the queues qs of topic t after item is put on those of the
\* listeners ls, one after the other
Broker_publish(t, ls, qs, item) ==
  [ c \in Clients |->
      IF c \in Range(ls) THEN put_nowait(qs[c], item, maxsize(t)) ELSE qs[c] ]

\* the same for the events es, in their order; the first is the n-th
RECURSIVE PublishAll(_, _, _, _, _)
PublishAll(t, ls, qs, es, n) ==
  IF es = << >> THEN qs
  ELSE PublishAll(t, ls, Broker_publish(t, ls, qs, Item(n, Head(es))),
                  Tail(es), n + 1)

\* The step of a task of the Job Supervisor on job j publishes the events
\* es.  With no listener _publish changes nothing; the model follows the
\* listeners of job TopicJob only.
JobPublish(j, es) ==
  IF j = TopicJob /\ listeners["job"] # << >> /\ es # << >>
    THEN /\ queue' = [queue EXCEPT !["job"] =
                        PublishAll("job", listeners["job"], queue["job"], es,
                                   published["job"] + 1)]
         /\ published' = [published EXCEPT !["job"] = @ + Len(es)]
         /\ UNCHANGED << listeners, keys, received >>
    ELSE UNCHANGED << listeners, keys, queue, published, received >>

\* JobManager.subscribe (lines 408-410) and ChatManager.subscribe (line 225)
SubscribeOutcome(t) ==
  IF t = "job" /\ TopicJob \notin DOMAIN jobs THEN "JobNotFound"
  ELSE IF t = "chat" /\ TopicSession \notin DOMAIN sessions
         THEN "SessionNotFound"
  ELSE "Subscribed"

\* the job.update of _emit_update and of line 414 of subscribe
JobUpdate(job) == Event("job.update", [job |-> job])

\* subscribe without line 414
SubscribeEvents_None(t) == << >>

\* a subscribe of the Chat Supervisor that puts the events of the run so far
\* on the new queue
SubscribeEvents_Replay(t) ==
  IF t = "job" THEN << JobUpdate(jobs[TopicJob]) >>
  ELSE [i \in DOMAIN chatEvents[TopicRun] |->
          Event(chatEvents[TopicRun][i], [run_id |-> TopicRun])]

\* the events subscribe publishes on the topic: JobManager.subscribe
\* publishes a job.update with the job (line 414), ChatManager.subscribe none
SubscribeEvents(t) ==
  IF t = "job" THEN << JobUpdate(jobs[TopicJob]) >> ELSE << >>

\* subscribe by client c: a fresh queue is appended to the listeners of the
\* topic, under a new key if there is none; then the events of subscribe are
\* published on the topic
Subscribe(t, c) ==
  /\ c \notin Range(listeners[t])
  /\ SubscribeOutcome(t) = "Subscribed"
  /\ listeners' = [listeners EXCEPT ![t] = Append(@, c)]
  /\ keys' = keys \cup {t}
  /\ received' = [received EXCEPT ![t][c] = << >>]
  /\ queue' = [queue EXCEPT ![t] =
                 PublishAll(t, Append(listeners[t], c),
                            [queue[t] EXCEPT ![c] = << >>],
                            SubscribeEvents(t), published[t] + 1)]
  /\ published' = [published EXCEPT ![t] = @ + Len(SubscribeEvents(t))]

\* main.py, line 107: the stream of client c takes the next item of its queue
Dequeue(t, c) ==
  /\ c \in Range(listeners[t])
  /\ queue[t][c] # << >>
  /\ received' = [received EXCEPT ![t][c] = Append(@, get(queue[t][c]).item)]
  /\ queue' = [queue EXCEPT ![t][c] = get(queue[t][c]).rest]
  /\ UNCHANGED << listeners, keys, published >>

\* ChatManager.unsubscribe, lines 238-239, left out
KeysAfterUnsubscribe_Kept(t, ls) == keys

\* the keys of the tables after an unsubscribe that leaves ls as the
\* listeners of topic t: ChatManager.unsubscribe pops the key of an empty list
\* (lines 238-239), JobManager.unsubscribe pops nothing
KeysAfterUnsubscribe(t, ls) ==
  IF t = "chat" /\ ls = << >> THEN keys \ {t} ELSE keys

\* unsubscribe by client c: its queue is removed from the listeners of the
\* topic and given up
Unsubscribe(t, c) ==
  /\ c \in Range(listeners[t])
  /\ listeners' = [listeners EXCEPT ![t] = SelectSeq(@, LAMBDA x : x # c)]
  /\ keys' = KeysAfterUnsubscribe(t, SelectSeq(listeners[t], LAMBDA x : x # c))
  /\ queue' = [queue EXCEPT ![t][c] = << >>]
  /\ received' = [received EXCEPT ![t][c] = << >>]
  /\ UNCHANGED published

Sources == {"stdout", "stderr"}

(***************************************************************************)
(* The error of a job: none, the restart error of __init__, or one of the  *)
(* errors of lines 303-311: a stderr line of stdout_tail (n is its         *)
(* message), "Process exited with code n", "Process completed but no       *)
(* result file was found".                                                 *)
(***************************************************************************)
Error(kind, n) == [kind |-> kind, n |-> n]

NoError == Error("None", 0)

\* the last n items of a list: list[-n:]
LastItems(list, n) ==
  IF Len(list) > n THEN SubSeq(list, Len(list) - n + 1, Len(list)) ELSE list

\* the first n items of a list
FirstItems(list, n) == IF Len(list) > n THEN SubSeq(list, 1, n) ELSE list

\* _append_activity that keeps the oldest items
AppendActivity_KeepsOldest(job, source, message) ==
  [job EXCEPT !.activity =
     FirstItems(Append(@, [source |-> source, message |-> message]),
                ActivityMax)]

\* JobManager._append_activity, lines 85-88: the job after the call.  The
\* message of a line or of a log entry is the number of the input it came
\* with; that of a message of the supervisor is 0.
_append_activity(job, source, message) ==
  [job EXCEPT !.activity =
     LastItems(Append(@, [source |-> source, message |-> message]),
               ActivityMax)]

\* _advance_stage without the rank check of line 94
AdvanceStage_NoRankCheck(job, new_stage) ==
  IF new_stage = "None" THEN job
  ELSE _append_activity(
         [job EXCEPT !.stage = new_stage,
                     !.progress = STAGE_PROGRESS(new_stage)], "system", 0)

(***************************************************************************)
(* JobManager._advance_stage: the job after the call.                      *)
(***************************************************************************)
_advance_stage(job, new_stage) ==
  IF new_stage = "None" THEN job
  ELSE IF stage_rank(new_stage) <= stage_rank(job.stage) THEN job
  ELSE _append_activity(
         [job EXCEPT !.stage = new_stage,
                     !.progress = STAGE_PROGRESS(new_stage)], "system", 0)

\* _finalize without line 113
Finalize_ProgressKept(job, status, error) ==
  LET j1 == [job EXCEPT !.status = status,
                        !.error = IF error # NoError THEN error ELSE @]
  IN IF status = "COMPLETED" THEN [j1 EXCEPT !.stage = "COMPLETED"] ELSE j1

(***************************************************************************)
(* JobManager._finalize: the job after the call.                           *)
(***************************************************************************)
_finalize(job, status, error) ==
  LET j1 == [job EXCEPT !.status = status,
                        !.error = IF error # NoError THEN error ELSE @]
  IN IF status = "COMPLETED"
       THEN [j1 EXCEPT !.stage = "COMPLETED",
                       !.progress = STAGE_PROGRESS("COMPLETED")]
       ELSE j1

(***************************************************************************)
(* JobManager._persist: self.jobs[job.id] = job; store.save_job(job).      *)
(***************************************************************************)
_persist(id, job) ==
  /\ jobs' = (id :> job) @@ jobs
  /\ disk' = (id :> job) @@ disk

(***************************************************************************)
(* The events the calls above publish, in the order of their _publish      *)
(* calls.                                                                  *)
(***************************************************************************)
\* _append_activity, line 89
ActivityEvents(source, message) ==
  << Event("job.activity",
           [item |-> [source |-> source, message |-> message]]) >>

\* _advance_stage, line 94: the stage is new and not behind the job's
Advances(job, new_stage) ==
  new_stage # "None" /\ stage_rank(new_stage) > stage_rank(job.stage)

\* _advance_stage, lines 100-102
AdvanceEvents(job, new_stage) ==
  IF Advances(job, new_stage)
    THEN ActivityEvents("system", 0)
           \o << JobUpdate(_advance_stage(job, new_stage)) >>
    ELSE << >>

\* _finalize that publishes job.completed after its job.update
FinalizeEvents_CompletedLast(job, status, error) ==
  (IF error # NoError THEN << Event("job.error", [error |-> error]) >>
                      ELSE << >>)
    \o << JobUpdate(_finalize(job, status, error)) >>
    \o (IF status = "COMPLETED"
          THEN << Event("job.completed",
                        [result_file |-> job.result_file]) >>
          ELSE << >>)

\* _finalize, lines 108-109, 118-126
FinalizeEvents(job, status, error) ==
  (IF error # NoError THEN << Event("job.error", [error |-> error]) >>
                      ELSE << >>)
    \o (IF status = "COMPLETED"
          THEN << Event("job.completed",
                        [result_file |-> job.result_file]) >>
          ELSE << >>)
    \o << JobUpdate(_finalize(job, status, error)) >>

\* lines 351-367: the job create_job makes
NewJob ==
  [ status |-> "QUEUED", stage |-> "QUEUED",
    progress |-> STAGE_PROGRESS("QUEUED"), result_file |-> "None",
    error |-> NoError, pid |-> FALSE, stdout_tail |-> << >>,
    activity |-> << >> ]

\* line 369: with its first activity item
CreatedJob == _append_activity(NewJob, "system", 0)

(***************************************************************************)
(* The store (src/webapi/store.py): a directory of job files and one of    *)
(* chat files.  A file name is its stem and its suffixes; a document, the  *)
(* JSON text of an entity, is written in DocParts pieces.                  *)
(***************************************************************************)
MaxVersions == 2

DocParts == 2

StoreDirs == {"jobs", "chats"}

\* the entities saved: the jobs, and the session TopicSession
StoreIds(d) == IF d = "jobs" THEN JobIds ELSE {TopicSession}

Versions == 1..MaxVersions

\* _job_file (line 23) and _chat_file (line 43)
EntityFile(d, id) == [dir |-> d, name |-> << id, "json" >>]

\* Path.with_suffix: the last suffix of the name is replaced
with_suffix(file, suffix) ==
  [file EXCEPT !.name = SubSeq(@, 1, Len(@) - 1) \o suffix]

\* lines 27 and 47: out.with_suffix(".json.tmp")
TmpFile(d, id) == with_suffix(EntityFile(d, id), << "json", "tmp" >>)

\* a glob that matches every file of the directory
glob_AnyFile(name) == TRUE

\* glob("*.json"), lines 35 and 55: the name ends in .json
glob_json(name) == name[Len(name)] = "json"

\* json.dump of version v of entity id: the pieces of the document
json_dump(id, v) == [p \in 1..DocParts |-> [id |-> id, version |-> v, part |-> p]]

\* json.load raises on a text that is not a whole document
IsDocument(text) ==
  /\ Len(text) = DocParts
  /\ text = json_dump(text[1].id, text[1].version)

\* the files load_jobs or load_sessions opens
Globbed(d) == { f \in DOMAIN store_files : f.dir = d /\ glob_json(f.name) }

\* load_jobs or load_sessions raises
LoadRaises(d) == \E f \in Globbed(d) : ~IsDocument(store_files[f])

\* what load_jobs or load_sessions returns when it does not raise: the
\* version of each entity, by the id in its document
Loaded(d) ==
  LET docs == { store_files[f] : f \in { g \in Globbed(d) : IsDocument(store_files[g]) } }
  IN [ id \in { t[1].id : t \in docs } |->
         (CHOOSE t \in docs : t[1].id = id)[1].version ]

NotSaving == [pc |-> "idle", dir |-> "jobs", id |-> 0, version |-> 0]

InitStore ==
  /\ store_files = << >>
  /\ saving = NotSaving

NoCall == [fn |-> "None"]

\* chat_manager.py, line 55: asyncio.Lock(), held by no task
NoHolder == [kind |-> "none", id |-> 0, session |-> 0, content |-> << >>]

LockSessions == {TopicSession, TopicSession + 1}

LockRuns == {TopicRun, TopicRun + 1}

\* the runs started and the chunks read in a behaviour of LockSpec
MaxLockEvents == 2

InitLib == InitStore /\ call = NoCall /\ chat_lock = NoHolder

\* lines 26-29 and 46-49: the temporary file is opened for writing, made
\* or emptied
SaveOpen(d, id, v) ==
  /\ saving = NotSaving
  /\ store_files' = (TmpFile(d, id) :> << >>) @@ store_files
  /\ saving' = [pc |-> "writing", dir |-> d, id |-> id, version |-> v]
  /\ UNCHANGED << jobState, chatState, brokerVars, events, call,
                  chat_lock >>

\* lines 29-30 and 49-50: the next piece of the document reaches the file
SaveWrite ==
  /\ saving.pc = "writing"
  /\ LET tmp == TmpFile(saving.dir, saving.id)
         n == Len(store_files[tmp]) + 1
     IN /\ store_files' =
             [store_files EXCEPT
                ![tmp] = Append(@, json_dump(saving.id, saving.version)[n])]
        /\ saving' = [saving EXCEPT
                        !.pc = IF n = DocParts THEN "written" ELSE "writing"]
  /\ UNCHANGED << jobState, chatState, brokerVars, events, call,
                  chat_lock >>

\* lines 31 and 51: tmp.replace(out), the rename of the file system
SaveReplace ==
  /\ saving.pc = "written"
  /\ LET tmp == TmpFile(saving.dir, saving.id)
         out == EntityFile(saving.dir, saving.id)
     IN store_files' =
          (out :> store_files[tmp])
            @@ [f \in DOMAIN store_files \ {tmp} |-> store_files[f]]
  /\ saving' = NotSaving
  /\ UNCHANGED << jobState, chatState, brokerVars, events, call,
                  chat_lock >>

\* the process dies inside a save: the files stay as they are
StoreCrash ==
  /\ saving # NotSaving
  /\ saving' = NotSaving
  /\ UNCHANGED << store_files, jobState, chatState, brokerVars, events, call,
                  chat_lock >>

StoreNext ==
  \/ \E d \in StoreDirs : \E id \in StoreIds(d), v \in Versions :
        SaveOpen(d, id, v)
  \/ SaveWrite
  \/ SaveReplace
  \/ StoreCrash

InitJobs ==
  /\ jobs = << >>
  /\ disk = << >>
  /\ active_job_id = 0
  /\ processes = {}
  /\ lock = 0
  /\ procState = [j \in JobIds |-> "none"]
  /\ resultAt = [j \in JobIds |-> {}]
  /\ runPc = [j \in JobIds |-> "none"]
  /\ streamPc = [j \in JobIds |-> [s \in Sources |-> "none"]]
  /\ logPc = [j \in JobIds |-> "none"]
  /\ post_exit_checks = [j \in JobIds |-> 0]
  /\ post_exit_polls = [j \in JobIds |-> 0]
  /\ cancelPc = [j \in JobIds |-> "idle"]
  /\ terminated = {}
  /\ createPc = [c \in Clients |-> "idle"]
  /\ events = 0

Ids == 1..MaxChatEvents

InitChat ==
  /\ sessions = << >>
  /\ sdisk = << >>
  /\ pipe = [r \in Ids |-> [pc |-> "none", session |-> 0]]
  /\ chatEvents = [r \in Ids |-> << >>]
  /\ tasks = {}

(***************************************************************************)
(* JobManager.__init__: load the store, fail every RUNNING job, save it.   *)
(* Restart is a crash of the process at any point followed by the          *)
(* construction of a new supervisor over the same store: every task, call  *)
(* and process handle of the old supervisor is gone.                       *)
(***************************************************************************)
\* the loop of __init__ without line 45
Reconciled_ErrorKept(job) ==
  IF job.status = "RUNNING" THEN [job EXCEPT !.status = "FAILED"] ELSE job

Reconciled(job) ==
  IF job.status = "RUNNING"
    THEN [job EXCEPT !.status = "FAILED", !.error = Error("restart", 0)]
    ELSE job

Restart ==
  /\ events < MaxEvents
  /\ events' = events + 1
  /\ jobs' = [j \in DOMAIN disk |-> Reconciled(disk[j])]
  /\ disk' = [j \in DOMAIN disk |-> Reconciled(disk[j])]
  /\ active_job_id' = 0
  /\ processes' = {}
  /\ lock' = 0
  /\ procState' = [j \in JobIds |-> "none"]
  /\ runPc' = [j \in JobIds |-> "none"]
  /\ streamPc' = [j \in JobIds |-> [s \in Sources |-> "none"]]
  /\ logPc' = [j \in JobIds |-> "none"]
  /\ post_exit_checks' = [j \in JobIds |-> 0]
  /\ post_exit_polls' = [j \in JobIds |-> 0]
  /\ cancelPc' = [j \in JobIds |-> "idle"]
  /\ terminated' = {}
  /\ createPc' = [c \in Clients |-> "idle"]
  /\ NewListeners("job")
  /\ UNCHANGED << resultAt, chatVars >>

(***************************************************************************)
(* JobManager.create_job.                                                  *)
(***************************************************************************)
\* lines 335-338: the check made with the lock held
ActiveConflict ==
  /\ active_job_id # 0
  /\ active_job_id \in DOMAIN jobs
  /\ jobs[active_job_id].status \in {"QUEUED", "RUNNING"}

\* With the lock: Conflict, or go on to read the upload (an await) holding it.
CreateLocked(c) ==
  IF ActiveConflict
    THEN /\ createPc' = [createPc EXCEPT ![c] = "idle"]
         /\ lock' = 0
         /\ UNCHANGED events
    ELSE /\ Cardinality(DOMAIN disk) < MaxJobs
         /\ events < MaxEvents
         /\ events' = events + 1
         /\ createPc' = [createPc EXCEPT ![c] = "uploading"]
         /\ lock' = c

\* The call up to its first suspension, for a file name that passes the
\* suffix check of lines 329-332 (one that does not raises ValueError there
\* and changes nothing): the lock is taken, or waited for.
CreateCall(c) ==
  /\ createPc[c] = "idle"
  /\ IF lock = 0
       THEN CreateLocked(c)
       ELSE /\ createPc' = [createPc EXCEPT ![c] = "lockwait"]
            /\ UNCHANGED << lock, events >>
  /\ UNCHANGED << jobs, disk, active_job_id, processes, procState, resultAt,
                  runPc, streamPc, logPc, post_exit_checks, post_exit_polls,
                  cancelPc, terminated,
                  chatVars, brokerVars >>

CreateAcquire(c) ==
  /\ createPc[c] = "lockwait"
  /\ lock = 0
  /\ CreateLocked(c)
  /\ UNCHANGED << jobs, disk, active_job_id, processes, procState, resultAt,
                  runPc, streamPc, logPc, post_exit_checks, post_exit_polls,
                  cancelPc, terminated,
                  chatVars, brokerVars >>

\* lines 351-377: the upload is read; the job is made, persisted, made active
\* and its run task created.
CreateFinish(c) ==
  /\ createPc[c] = "uploading"
  /\ LET id == Cardinality(DOMAIN disk) + 1
     IN /\ _persist(id, CreatedJob)
        /\ JobPublish(id, ActivityEvents("system", 0)
                            \o << JobUpdate(CreatedJob) >>)
        /\ active_job_id' = id
        /\ runPc' = [runPc EXCEPT ![id] = "start"]
  /\ lock' = 0
  /\ createPc' = [createPc EXCEPT ![c] = "idle"]
  /\ UNCHANGED << processes, procState, resultAt, streamPc, logPc,
                  post_exit_checks, post_exit_polls, cancelPc, terminated,
                  events,
                  chatVars >>

\* lines 344-349: reading or writing the upload raises; the lock is released.
CreateUploadFails(c) ==
  /\ createPc[c] = "uploading"
  /\ lock' = 0
  /\ createPc' = [createPc EXCEPT ![c] = "idle"]
  /\ UNCHANGED << jobs, disk, active_job_id, processes, procState, resultAt,
                  runPc, streamPc, logPc, post_exit_checks, post_exit_polls,
                  cancelPc, terminated, events,
                  chatVars, brokerVars >>

(***************************************************************************)
(* The subprocess: it exits when it likes, or when it is terminated or     *)
(* killed.  Its exit code and the result files it has written are read by  *)
(* nothing before the finalisation of _run_job, and are chosen there.      *)
(***************************************************************************)
ProcExit(j) ==
  /\ procState[j] = "alive"
  /\ procState' = [procState EXCEPT ![j] = "exited"]
  /\ UNCHANGED << jobs, disk, active_job_id, processes, lock, resultAt,
                  runPc, streamPc, logPc, post_exit_checks, post_exit_polls,
                  cancelPc, terminated, createPc, events,
                  chatVars, brokerVars >>

\* a wait that returns while the subprocess runs
ProcWait_NoWait(j) == procState[j] \in {"alive", "exited"}

\* await proc.wait() (lines 277, 390, 393) returns: the subprocess has exited
proc_wait(j) == procState[j] = "exited"

(***************************************************************************)
(* JobManager._run_job.                                                    *)
(***************************************************************************)
\* lines 241-249, up to the await of create_subprocess_exec
RunStart(j) ==
  /\ runPc[j] = "start"
  /\ _persist(j, _append_activity([jobs[j] EXCEPT !.status = "RUNNING"],
                                  "system", 0))
  /\ JobPublish(j, ActivityEvents("system", 0) \o << JobUpdate(jobs'[j]) >>)
  /\ runPc' = [runPc EXCEPT ![j] = "spawning"]
  /\ UNCHANGED << active_job_id, processes, lock, procState, resultAt,
                  streamPc, logPc, post_exit_checks, post_exit_polls,
                  cancelPc, terminated, createPc, events,
                  chatVars >>

\* lines 251-267: the subprocess exists; its handle and pid are recorded and
\* the two stream consumers created.
RunSpawned(j) ==
  /\ runPc[j] = "spawning"
  /\ processes' = processes \cup {j}
  /\ procState' = [procState EXCEPT ![j] = "alive"]
  /\ _persist(j, [jobs[j] EXCEPT !.pid = TRUE])
  /\ JobPublish(j, << JobUpdate(jobs'[j]) >>)
  /\ streamPc' = [streamPc EXCEPT ![j] = [s \in Sources |-> "reading"]]
  /\ runPc' = [runPc EXCEPT ![j] = "detect"]
  /\ UNCHANGED << active_job_id, lock, resultAt, logPc, post_exit_checks,
                  post_exit_polls, cancelPc, terminated, createPc, events,
                  chatVars >>

\* line 251: create_subprocess_exec raises; nothing in _run_job catches it.
RunSpawnFails(j) ==
  /\ runPc[j] = "spawning"
  /\ runPc' = [runPc EXCEPT ![j] = "dead"]
  /\ UNCHANGED << jobs, disk, active_job_id, processes, lock, procState,
                  resultAt, streamPc, logPc, post_exit_checks,
                  post_exit_polls, cancelPc, terminated, createPc, events,
                  chatVars, brokerVars >>

\* _detect_log_file, one turn of its loop, and lines 268-277 when it returns.
\* outcome: "found" a new log file, "sleep", or "timeout" (the deadline).
DetectPoll(j, outcome) ==
  /\ runPc[j] = "detect"
  /\ CASE outcome = "found" ->
            /\ _persist(j, _append_activity(jobs[j], "system", 0))
            /\ logPc' = [logPc EXCEPT ![j] = "polling"]
            /\ runPc' = [runPc EXCEPT ![j] = "wait"]
            /\ post_exit_checks' = [post_exit_checks EXCEPT ![j] = 0]
       [] outcome = "timeout" ->
            /\ runPc' = [runPc EXCEPT ![j] = "wait"]
            /\ post_exit_checks' = [post_exit_checks EXCEPT ![j] = 0]
            /\ UNCHANGED << jobs, disk, logPc >>
       [] outcome = "sleep" ->
            /\ procState[j] = "exited"
            /\ IF post_exit_checks[j] + 1 >= DetectPostExitChecks
                 THEN /\ runPc' = [runPc EXCEPT ![j] = "wait"]
                      /\ post_exit_checks' = [post_exit_checks EXCEPT ![j] = 0]
                 ELSE /\ post_exit_checks' = [post_exit_checks EXCEPT ![j] = @ + 1]
                      /\ UNCHANGED runPc
            /\ UNCHANGED << jobs, disk, logPc >>
  /\ JobPublish(j, IF outcome = "found"
                     THEN ActivityEvents("system", 0)
                            \o << JobUpdate(jobs'[j]) >>
                     ELSE << >>)
  /\ UNCHANGED << active_job_id, processes, lock, procState,
                  resultAt, streamPc, post_exit_polls, cancelPc, terminated,
                  createPc, events,
                  chatVars >>

\* line 305: line.startswith("[stderr]")
IsStderr(line) == line.source = "stderr"

\* finalisation that takes the first stderr line of stdout_tail
Finalised_FirstStderr(job, rc, files) ==
  LET j1 == IF "expected" \in files
              THEN [job EXCEPT !.result_file = "expected"] ELSE job
  IN IF rc = 0 /\ j1.result_file # "None" /\ j1.result_file \in files
       THEN _finalize(_advance_stage(j1, "FINALIZING"), "COMPLETED", NoError)
       ELSE LET stderr_lines == SelectSeq(j1.stdout_tail, IsStderr)
                error ==
                  IF j1.error # NoError THEN j1.error
                  ELSE IF stderr_lines # << >>
                         THEN Error("stderr", stderr_lines[1].message)
                  ELSE IF rc # 0 THEN Error("exit", rc)
                  ELSE Error("noresult", 0)
            IN _finalize(j1, "FAILED", error)

\* lines 294-312: the job as finalisation leaves it.
Finalised(job, rc, files) ==
  LET j1 == IF "expected" \in files
              THEN [job EXCEPT !.result_file = "expected"] ELSE job
  IN IF rc = 0 /\ j1.result_file # "None" /\ j1.result_file \in files
       THEN _finalize(_advance_stage(j1, "FINALIZING"), "COMPLETED", NoError)
       ELSE LET stderr_lines == SelectSeq(j1.stdout_tail, IsStderr)
                error ==
                  IF j1.error # NoError THEN j1.error
                  ELSE IF stderr_lines # << >>
                         THEN Error("stderr",
                                    stderr_lines[Len(stderr_lines)].message)
                  ELSE IF rc # 0 THEN Error("exit", rc)
                  ELSE Error("noresult", 0)
            IN _finalize(j1, "FAILED", error)

\* the job of lines 294-297: the expected result file is there
WithExpectedResult(job, files) ==
  IF "expected" \in files THEN [job EXCEPT !.result_file = "expected"] ELSE job

\* lines 294-312: the events finalisation publishes
FinalisedEvents(job, rc, files) ==
  LET j1 == WithExpectedResult(job, files)
  IN IF rc = 0 /\ j1.result_file # "None" /\ j1.result_file \in files
       THEN AdvanceEvents(j1, "FINALIZING")
              \o FinalizeEvents(_advance_stage(j1, "FINALIZING"),
                                "COMPLETED", NoError)
       ELSE FinalizeEvents(j1, "FAILED", Finalised(job, rc, files).error)

\* lines 286-288, 314-316: with the lock held
ClearActive(j) ==
  active_job_id' = IF active_job_id = j THEN 0 ELSE active_job_id

\* line 285: the job was cancelled while it ran
AlreadyCancelled(job) == job.status = "CANCELLED"

\* The result files finalisation can look at: the expected one and the one
\* a line has named.
NamedPaths(job) == {"expected"} \cup ({job.result_file} \cap Paths)

\* lines 277-317, from the exit of the subprocess and the end of the
\* consumers to the lock.  return_code is the exit code of the subprocess and
\* files the result files it has left.
RunFinalize(j, return_code, files) ==
  /\ runPc[j] = "wait"
  /\ proc_wait(j)
  /\ \A s \in Sources : streamPc[j][s] = "done"
  /\ logPc[j] \in {"none", "done"}
  /\ files \subseteq NamedPaths(jobs[j])
  /\ processes' = processes \ {j}
  /\ IF AlreadyCancelled(jobs[j])
       THEN /\ UNCHANGED resultAt
            /\ IF lock = 0
                 THEN /\ ClearActive(j)
                      /\ _persist(j, jobs[j])
                      /\ JobPublish(j, << JobUpdate(jobs[j]) >>)
                      /\ runPc' = [runPc EXCEPT ![j] = "done"]
                 ELSE /\ runPc' = [runPc EXCEPT ![j] = "lock_cancelled"]
                      /\ UNCHANGED << jobs, disk, active_job_id, brokerVars >>
       ELSE /\ resultAt' = [resultAt EXCEPT ![j] = files]
            /\ _persist(j, Finalised(jobs[j], return_code, files))
            /\ JobPublish(j, FinalisedEvents(jobs[j], return_code, files))
            /\ IF lock = 0
                 THEN /\ ClearActive(j)
                      /\ runPc' = [runPc EXCEPT ![j] = "done"]
                 ELSE /\ runPc' = [runPc EXCEPT ![j] = "lock_final"]
                      /\ UNCHANGED active_job_id
  /\ UNCHANGED << lock, procState, streamPc, logPc, post_exit_checks,
                  post_exit_polls, cancelPc, terminated, createPc, events,
                  chatVars >>

\* the run task gets the lock it waited for
RunLocked(j) ==
  /\ runPc[j] \in {"lock_cancelled", "lock_final"}
  /\ lock = 0
  /\ ClearActive(j)
  /\ _persist(j, jobs[j])
  /\ JobPublish(j, IF runPc[j] = "lock_cancelled"
                     THEN << JobUpdate(jobs[j]) >> ELSE << >>)
  /\ runPc' = [runPc EXCEPT ![j] = "done"]
  /\ UNCHANGED << processes, lock, procState, resultAt, streamPc, logPc,
                  post_exit_checks, post_exit_polls, cancelPc, terminated,
                  createPc, events,
                  chatVars >>

(***************************************************************************)
(* JobManager._consume_stream, one line; and the end of the stream.        *)
(***************************************************************************)
\* _append_stdout_tail that keeps the oldest lines
AppendStdoutTail_KeepsOldest(job, source, message) ==
  [job EXCEPT !.stdout_tail =
     FirstItems(Append(@, [source |-> source, message |-> message]),
                StdoutTailMax)]

\* lines 80-82: the line "[source] message" is appended and the last 300 kept
_append_stdout_tail(job, source, message) ==
  [job EXCEPT !.stdout_tail =
     LastItems(Append(@, [source |-> source, message |-> message]),
               StdoutTailMax)]

\* lines 192-202: the job after a line of a stream.  message stands for the
\* text of the line; line is what the supervisor reads in it.
LineRead(job, source, line, message) ==
  LET j1 == _advance_stage(
              _append_activity(_append_stdout_tail(job, source, message),
                               source, message),
              line.stage)
  IN IF line.saved # "None" THEN [j1 EXCEPT !.result_file = line.saved] ELSE j1

\* lines 193-205: the events a line of a stream publishes
LineReadEvents(job, source, line, message) ==
  ActivityEvents(source, message)
    \o AdvanceEvents(
         _append_activity(_append_stdout_tail(job, source, message),
                          source, message),
         line.stage)
    \o << JobUpdate(LineRead(job, source, line, message)) >>

\* lines 186-205: a line is read from the stream and handled
ReadLine(j, source, line) ==
  /\ streamPc[j][source] = "reading"
  /\ events' = events + 1
  /\ _persist(j, LineRead(jobs[j], source, line, events + 1))
  /\ JobPublish(j, LineReadEvents(jobs[j], source, line, events + 1))
  /\ UNCHANGED << active_job_id, processes, lock, procState, resultAt, runPc,
                  streamPc, logPc, post_exit_checks, post_exit_polls,
                  cancelPc, terminated, createPc,
                  chatVars >>

ConsumeLine(j, source, line) ==
  /\ events < MaxEvents
  /\ ReadLine(j, source, line)

ConsumeEOF(j, source) ==
  /\ streamPc[j][source] = "reading"
  /\ procState[j] = "exited"
  /\ streamPc' = [streamPc EXCEPT ![j][source] = "done"]
  /\ UNCHANGED << jobs, disk, active_job_id, processes, lock, procState,
                  resultAt, runPc, logPc, post_exit_checks, post_exit_polls,
                  cancelPc, terminated, createPc, events,
                  chatVars, brokerVars >>

(***************************************************************************)
(* JobManager._consume_log_file, one turn of its loop: the new entries     *)
(* (their stages, by stage_from_log_entry) are taken in order.             *)
(***************************************************************************)
\* lines 220-227; the message of the first entry is first
RECURSIVE EntriesRead(_, _, _)
EntriesRead(job, entries, first) ==
  IF entries = << >> THEN job
  ELSE EntriesRead(_advance_stage(_append_activity(job, "log", first),
                                  Head(entries)),
                   Tail(entries), first + 1)

\* lines 220-238: the events the new entries publish
RECURSIVE EntriesReadEvents(_, _, _)
EntriesReadEvents(job, entries, first) ==
  IF entries = << >> THEN << >>
  ELSE ActivityEvents("log", first)
         \o AdvanceEvents(_append_activity(job, "log", first), Head(entries))
         \o EntriesReadEvents(
              _advance_stage(_append_activity(job, "log", first),
                             Head(entries)),
              Tail(entries), first + 1)

Batches(n) == UNION { [1..k -> SignalStages \cup {"None"}] : k \in 0..n }

\* lines 210-238: the new entries of the log file are read and handled
ReadLog(j, entries) ==
  /\ logPc[j] = "polling"
  /\ events' = events + Len(entries)
  /\ _persist(j, EntriesRead(jobs[j], entries, events + 1))
  /\ JobPublish(j, IF entries = << >> THEN << >>
                   ELSE EntriesReadEvents(jobs[j], entries, events + 1)
                          \o << JobUpdate(jobs'[j]) >>)
  /\ IF procState[j] = "exited"
       THEN IF post_exit_polls[j] + 1 >= LogPostExitPolls
              THEN /\ logPc' = [logPc EXCEPT ![j] = "done"]
                   /\ post_exit_polls' = [post_exit_polls EXCEPT ![j] = 0]
              ELSE /\ post_exit_polls' = [post_exit_polls EXCEPT ![j] = @ + 1]
                   /\ UNCHANGED logPc
       ELSE UNCHANGED << logPc, post_exit_polls >>
  /\ UNCHANGED << active_job_id, processes, lock, procState, resultAt, runPc,
                  streamPc, post_exit_checks, cancelPc, terminated,
                  createPc,
                  chatVars >>

LogPoll(j, entries) ==
  /\ events + Len(entries) <= MaxEvents
  /\ ReadLog(j, entries)

(***************************************************************************)
(* JobManager.cancel_job.                                                  *)
(***************************************************************************)
\* cancel_job without the returncode test of line 385
CancelOutcome_NoExitCheck(j) ==
  IF j \notin DOMAIN jobs THEN "JobNotFound"
  ELSE IF j \notin processes THEN "NoOp"
  ELSE "Terminate"

\* lines 380-388: what a call comes to: JobNotFoundError, the job returned as
\* it is, or terminate() sent and the job marked CANCELLED after the exit
CancelOutcome(j) ==
  IF j \notin DOMAIN jobs THEN "JobNotFound"
  ELSE IF j \notin processes \/ procState[j] = "exited" THEN "NoOp"
  ELSE "Terminate"

\* lines 380-390: no process entry or an exited process: return the job;
\* else terminate and wait for the exit.
CancelCall(j) ==
  /\ cancelPc[j] = "idle"
  /\ CancelOutcome(j) = "Terminate"
  /\ events < MaxEvents
  /\ events' = events + 1
  /\ cancelPc' = [cancelPc EXCEPT ![j] = "term"]
  /\ terminated' = terminated \cup {j}
  /\ UNCHANGED << jobs, disk, active_job_id, processes, lock, procState,
                  resultAt, runPc, streamPc, logPc, post_exit_checks,
                  post_exit_polls, createPc,
                  chatVars, brokerVars >>

\* lines 391-393: 6 s passed; kill and wait again
CancelTimeout(j) ==
  /\ cancelPc[j] = "term"
  /\ procState[j] = "alive"
  /\ cancelPc' = [cancelPc EXCEPT ![j] = "kill"]
  /\ UNCHANGED << jobs, disk, active_job_id, processes, lock, procState,
                  resultAt, runPc, streamPc, logPc, post_exit_checks,
                  post_exit_polls, terminated, createPc, events,
                  chatVars, brokerVars >>

\* lines 395-403: the process has exited and the call resumes
CancelResume(j) ==
  /\ cancelPc[j] \in {"term", "kill"}
  /\ proc_wait(j)
  /\ _persist(j, _append_activity([jobs[j] EXCEPT !.status = "CANCELLED"],
                                  "system", 0))
  /\ JobPublish(j, ActivityEvents("system", 0) \o << JobUpdate(jobs'[j]) >>)
  /\ IF lock = 0
       THEN /\ ClearActive(j)
            /\ cancelPc' = [cancelPc EXCEPT ![j] = "idle"]
       ELSE /\ cancelPc' = [cancelPc EXCEPT ![j] = "lockwait"]
            /\ UNCHANGED active_job_id
  /\ UNCHANGED << processes, lock, procState, resultAt, runPc, streamPc,
                  logPc, post_exit_checks, post_exit_polls, terminated,
                  createPc, events,
                  chatVars >>

CancelLocked(j) ==
  /\ cancelPc[j] = "lockwait"
  /\ lock = 0
  /\ ClearActive(j)
  /\ cancelPc' = [cancelPc EXCEPT ![j] = "idle"]
  /\ UNCHANGED << jobs, disk, processes, lock, procState, resultAt, runPc,
                  streamPc, logPc, post_exit_checks, post_exit_polls,
                  terminated, createPc, events,
                  chatVars, brokerVars >>

(***************************************************************************)
(* The Chat Supervisor (src/webapi/chat_manager.py).  No locked section of *)
(* ChatManager has an await in it, so each is one step.                    *)
(***************************************************************************)
ChatRunStatus == {"RUNNING", "COMPLETED", "FAILED"}

ChatEvents ==
  { "chat.run.started", "chat.retrieval.completed", "chat.answer.delta",
    "chat.answer.completed", "chat.run.completed", "chat.run.failed" }

\* text is a sequence of characters, "a" a visible one and " " white space
Chunks == { << "a" >>, << " " >> }

Contents == { << " " >>, << " ", "a" >> }

\* white space: a blank, a line end
IsSpace(ch) == ch \in {" ", "\n"}

RECURSIVE LStrip(_)
LStrip(text) ==
  IF text # << >> /\ IsSpace(Head(text)) THEN LStrip(Tail(text)) ELSE text

RECURSIVE RStrip(_)
RStrip(text) ==
  IF text # << >> /\ IsSpace(text[Len(text)])
    THEN RStrip(SubSeq(text, 1, Len(text) - 1)) ELSE text

\* str.strip()
Strip(text) == RStrip(LStrip(text))

\* the index of the first item of seq with this id, 0 for None
IndexById(seq, id) ==
  IF \E i \in DOMAIN seq : seq[i].id = id
    THEN CHOOSE i \in DOMAIN seq :
           seq[i].id = id /\ \A k \in 1..(i - 1) : seq[k].id # id
    ELSE 0

_active_run(session) ==
  IF session.active_run_id = 0 THEN 0
  ELSE IndexById(session.runs, session.active_run_id)

_run_by_id(session, run_id) == IndexById(session.runs, run_id)

_message_by_id(session, message_id) == IndexById(session.messages, message_id)

\* start_message_run and delete_session without their check of the active run
RunningConflict_Ignored(session) == FALSE

\* lines 248-249, 205-206: the session has an active run that is RUNNING
RunningConflict(session) ==
  LET i == _active_run(session)
  IN i # 0 /\ session.runs[i].status = "RUNNING"

\* _validate_job_ready without the status check of lines 145-146
ValidateJobReady_NoStatusCheck(job_id) ==
  IF job_id \notin DOMAIN jobs THEN "JobNotFound"
  ELSE IF jobs[job_id].result_file = "None" THEN "FileNotFound"
  ELSE IF jobs[job_id].result_file \notin resultAt[job_id] THEN "FileNotFound"
  ELSE "ok"

\* ChatManager._validate_job_ready: "ok" or the exception it raises
_validate_job_ready(job_id) ==
  IF job_id \notin DOMAIN jobs THEN "JobNotFound"
  ELSE IF jobs[job_id].status # "COMPLETED" THEN "Validation"
  ELSE IF jobs[job_id].result_file = "None" THEN "FileNotFound"
  ELSE IF jobs[job_id].result_file \notin resultAt[job_id] THEN "FileNotFound"
  ELSE "ok"

\* ChatManager._persist, lines 79-85: the summary fields it sets
Summarised(session) ==
  LET i == _active_run(session)
  IN [session EXCEPT
        !.message_count = Len(session.messages),
        !.active_run_status =
           IF i = 0 THEN "None" ELSE session.runs[i].status]

\* ChatManager._persist, lines 86-87: the sessions map and, unless the store
\* raises, the session's file, starting from the map sess and the files dsk
Chat_persist(sess, dsk, s, session, store_ok) ==
  /\ sessions' = (s :> Summarised(session)) @@ sess
  /\ sdisk' = IF store_ok THEN (s :> Summarised(session)) @@ dsk ELSE dsk

NewSession(job_id) ==
  [ job_id |-> job_id, active_run_id |-> 0, active_run_status |-> "None",
    message_count |-> 0, messages |-> << >>, runs |-> << >> ]

\* the ids start_message_run gives the two messages of run r
UserMessageId(r) == 2 * r - 1

AssistantMessageId(r) == 2 * r

NewMessage(id, role, content) ==
  [ id |-> id, role |-> role, content |-> content, citations |-> FALSE ]

NewRun(r) ==
  [ id |-> r, status |-> "RUNNING", user_message_id |-> UserMessageId(r),
    assistant_message_id |-> AssistantMessageId(r), selected |-> FALSE,
    error |-> "None" ]

_publish(evs, r, event) == [evs EXCEPT ![r] = Append(@, event)]

\* line 480: the finally of _run_pipeline
TaskExit(r) == tasks' = tasks \ {r}

(***************************************************************************)
(* ChatManager.__init__: load the store and fail every active RUNNING run. *)
(***************************************************************************)
\* lines 57-65 without line 60: the run is not failed
ReconciledSession_RunKept(session) ==
  LET i == _active_run(session)
  IN IF i # 0 /\ session.runs[i].status = "RUNNING"
       THEN Summarised([session EXCEPT !.active_run_id = 0])
       ELSE session

ReconciledSession(session) ==
  LET i == _active_run(session)
  IN IF i # 0 /\ session.runs[i].status = "RUNNING"
       THEN Summarised([session EXCEPT !.runs[i].status = "FAILED",
                                       !.runs[i].error = "restart",
                                       !.active_run_id = 0])
       ELSE session

ChatRestart ==
  /\ events < MaxChatEvents
  /\ events' = events + 1
  /\ sessions' = [s \in DOMAIN sdisk |-> ReconciledSession(sdisk[s])]
  /\ sdisk' = [s \in DOMAIN sdisk |-> ReconciledSession(sdisk[s])]
  /\ pipe' = [r \in Ids |-> [pc |-> "none", session |-> 0]]
  /\ tasks' = {}
  /\ NewListeners("chat")
  /\ UNCHANGED << jobVars, chatEvents >>

(***************************************************************************)
(* ChatManager.create_session.  A job that is not ready raises before      *)
(* anything is changed.                                                    *)
(***************************************************************************)
CreateSession(job_id, store_ok) ==
  /\ _validate_job_ready(job_id) = "ok"
  /\ events < MaxChatEvents
  /\ events' = events + 1
  /\ Chat_persist(sessions, sdisk, events + 1, NewSession(job_id), store_ok)
  /\ UNCHANGED << jobVars, brokerVars, pipe, chatEvents, tasks >>

(***************************************************************************)
(* ChatManager.delete_session.  A missing session and a RUNNING active run *)
(* raise before anything is changed.                                       *)
(***************************************************************************)
\* delete_session without the check of lines 205-207
DeleteOutcome_NoConflict(s) ==
  IF s \notin DOMAIN sessions THEN "SessionNotFound" ELSE "Deleted"

\* lines 204-209: what the call on session s comes to
DeleteOutcome(s) ==
  IF s \notin DOMAIN sessions THEN "SessionNotFound"
  ELSE IF RunningConflict(sessions[s]) THEN "Conflict"
  ELSE "Deleted"

DeleteSession(s) ==
  /\ DeleteOutcome(s) = "Deleted"
  /\ sessions' = [t \in DOMAIN sessions \ {s} |-> sessions[t]]
  /\ sdisk' = [t \in DOMAIN sdisk \ {s} |-> sdisk[t]]
  /\ StaleKeysPopped({s})
  /\ UNCHANGED << jobVars, pipe, chatEvents, tasks, events >>

(***************************************************************************)
(* ChatManager.clear_sessions_for_job.  A missing job and a RUNNING active *)
(* run of a target raise before anything is changed.                       *)
(***************************************************************************)
\* line 215 without its filter on job_id
ClearTargets_All(job_id) == DOMAIN sessions

\* line 215: the sessions of the job
ClearTargets(job_id) ==
  { s \in DOMAIN sessions : sessions[s].job_id = job_id }

\* lines 213-222: what the call comes to
ClearOutcome(job_id) ==
  IF job_id \notin DOMAIN jobs THEN "JobNotFound"
  ELSE IF \E s \in ClearTargets(job_id) : RunningConflict(sessions[s])
         THEN "Conflict"
  ELSE "Cleared"

\* line 222: the number the call returns
ClearCount(job_id) == Cardinality(ClearTargets(job_id))

ClearSessionsForJob(job_id) ==
  /\ ClearOutcome(job_id) = "Cleared"
  /\ sessions' = [t \in DOMAIN sessions \ ClearTargets(job_id) |-> sessions[t]]
  /\ sdisk' = [t \in DOMAIN sdisk \ ClearTargets(job_id) |-> sdisk[t]]
  /\ StaleKeysPopped(ClearTargets(job_id))
  /\ UNCHANGED << jobVars, pipe, chatEvents, tasks, events >>

(***************************************************************************)
(* ChatManager.start_message_run.                                          *)
(***************************************************************************)
\* lines 242-252: what the call on session s with this content comes to
StartOutcome(s, content) ==
  IF Strip(content) = << >> THEN "Validation"
  ELSE IF s \notin DOMAIN sessions THEN "SessionNotFound"
  ELSE IF RunningConflict(sessions[s]) THEN "Conflict"
  ELSE IF _validate_job_ready(sessions[s].job_id) # "ok"
         THEN _validate_job_ready(sessions[s].job_id)
  ELSE "Accepted"

\* lines 254-285: the session with the two messages and the run added
Started(session, r, content) ==
  [session EXCEPT
     !.messages = @ \o << NewMessage(UserMessageId(r), "user", Strip(content)),
                          NewMessage(AssistantMessageId(r), "assistant", << >>) >>,
     !.runs = Append(@, NewRun(r)),
     !.active_run_id = r]

StartMessageRun(s, content, store_ok) ==
  IF StartOutcome(s, content) # "Accepted"
    THEN UNCHANGED vars
    ELSE /\ events < MaxChatEvents
         /\ events' = events + 1
         /\ Chat_persist(sessions, sdisk, s,
                         Started(sessions[s], events + 1, content), store_ok)
         /\ IF store_ok
              THEN /\ chatEvents' =
                        _publish(chatEvents, events + 1, "chat.run.started")
                   /\ pipe' = [pipe EXCEPT ![events + 1] =
                                 [pc |-> "init", session |-> s]]
                   /\ tasks' = tasks \cup {events + 1}
              ELSE UNCHANGED << chatEvents, pipe, tasks >>
         /\ UNCHANGED << jobVars, brokerVars >>

(***************************************************************************)
(* ChatManager._run_pipeline.                                              *)
(***************************************************************************)
\* lines 462-466: the session with run i failed by an exception
Failed(session, i) ==
  [session EXCEPT !.runs[i].status = "FAILED",
                  !.runs[i].error = "exc",
                  !.active_run_id = 0]

\* lines 456-480: an exception of the pipeline of run r of session s, raised
\* when the sessions map is sess, the files dsk and the events evs
Raise(sess, dsk, evs, s, r, store_ok) ==
  /\ pipe' = [pipe EXCEPT ![r].pc = "ended"]
  /\ TaskExit(r)
  /\ IF s \notin DOMAIN sess
       THEN sessions' = sess /\ sdisk' = dsk /\ chatEvents' = evs
       ELSE LET i == _run_by_id(sess[s], r)
            IN IF i = 0
                 THEN /\ sessions' = sess
                      /\ sdisk' = dsk
                      /\ chatEvents' = _publish(evs, r, "chat.run.failed")
                 ELSE /\ Chat_persist(sess, dsk, s, Failed(sess[s], i),
                                      store_ok)
                      /\ chatEvents' =
                           IF store_ok
                             THEN _publish(evs, r, "chat.run.failed")
                             ELSE evs

\* lines 321-322, 354-355, 420-421: return, and the finally of line 480
Return(r) ==
  /\ pipe' = [pipe EXCEPT ![r].pc = "ended"]
  /\ TaskExit(r)
  /\ UNCHANGED << sessions, sdisk, chatEvents >>

\* lines 318-349, to the await of select_nodes.  loaded: the result file is
\* read and holds a structure.
PipeInit(r, loaded, store_ok) ==
  /\ pipe[r].pc = "init"
  /\ LET s == pipe[r].session
     IN IF s \notin DOMAIN sessions
          THEN Raise(sessions, sdisk, chatEvents, s, r, store_ok)
          ELSE LET i == _run_by_id(sessions[s], r)
               IN IF i = 0 THEN Return(r)
                  ELSE IF \/ _message_by_id(sessions[s],
                                 sessions[s].runs[i].user_message_id) = 0
                          \/ _message_by_id(sessions[s],
                                 sessions[s].runs[i].assistant_message_id) = 0
                          \/ _validate_job_ready(sessions[s].job_id) # "ok"
                          \/ ~loaded
                         THEN Raise(sessions, sdisk, chatEvents, s, r, store_ok)
                         ELSE /\ pipe' = [pipe EXCEPT ![r].pc = "selecting"]
                              /\ UNCHANGED << sessions, sdisk, chatEvents,
                                              tasks >>
  /\ UNCHANGED << jobVars, brokerVars, events >>

\* line 343: select_nodes raises
PipeSelectFails(r, store_ok) ==
  /\ pipe[r].pc = "selecting"
  /\ Raise(sessions, sdisk, chatEvents, pipe[r].session, r, store_ok)
  /\ UNCHANGED << jobVars, brokerVars, events >>

\* lines 351-383 and the call of line 408, to its first await: select_nodes
\* has returned.  context_ok: build_citations and get_context_for_nodes
\* return.
PipeRetrieved(r, store_ok, context_ok, handler_store_ok) ==
  /\ pipe[r].pc = "selecting"
  /\ LET s == pipe[r].session
     IN IF s \notin DOMAIN sessions
          THEN Raise(sessions, sdisk, chatEvents, s, r, handler_store_ok)
          ELSE LET i == _run_by_id(sessions[s], r)
                   session == Summarised([sessions[s] EXCEPT
                                            !.runs[i].selected = TRUE])
                   sess == (s :> session) @@ sessions
                   dsk == (s :> session) @@ sdisk
                   evs == _publish(chatEvents, r, "chat.retrieval.completed")
               IN IF i = 0 THEN Return(r)
                  ELSE IF ~store_ok
                    THEN Raise(sess, sdisk, chatEvents, s, r, handler_store_ok)
                  ELSE IF ~context_ok
                    THEN Raise(sess, dsk, evs, s, r, handler_store_ok)
                  ELSE /\ sessions' = sess
                       /\ sdisk' = dsk
                       /\ chatEvents' = evs
                       /\ pipe' = [pipe EXCEPT ![r].pc = "streaming"]
                       /\ UNCHANGED tasks
  /\ UNCHANGED << jobVars, brokerVars, events >>

\* lines 385-406, chat_retrieval.py lines 401-406: one chunk of the answer
PipeDelta(r, delta, store_ok) ==
  /\ pipe[r].pc = "streaming"
  /\ events < MaxChatEvents
  /\ events' = events + 1
  /\ LET s == pipe[r].session
     IN IF s \notin DOMAIN sessions
          THEN Raise(sessions, sdisk, chatEvents, s, r, store_ok)
          ELSE LET m == _message_by_id(sessions[s], AssistantMessageId(r))
               IN IF m = 0
                    THEN UNCHANGED << sessions, sdisk, chatEvents, pipe,
                                      tasks >>
                    ELSE /\ sessions' = [sessions EXCEPT
                                ![s].messages[m].content = @ \o delta]
                         /\ chatEvents' =
                              _publish(chatEvents, r, "chat.answer.delta")
                         /\ UNCHANGED << sdisk, pipe, tasks >>
  /\ UNCHANGED << jobVars, brokerVars >>

\* line 408: stream_answer raises
PipeStreamFails(r, store_ok) ==
  /\ pipe[r].pc = "streaming"
  /\ Raise(sessions, sdisk, chatEvents, pipe[r].session, r, store_ok)
  /\ UNCHANGED << jobVars, brokerVars, events >>

\* the events of lines 431-455 in the opposite order
CompletedEvents_Swapped == << "chat.run.completed", "chat.answer.completed" >>

\* lines 431-455
CompletedEvents == << "chat.answer.completed", "chat.run.completed" >>

\* lines 423-428 without line 427
Completed_ActiveKept(session, i, m) ==
  [session EXCEPT !.messages[m].content = Strip(@),
                  !.messages[m].citations = TRUE,
                  !.runs[i].status = "COMPLETED"]

\* lines 423-428: the session with run i completed and its answer in message m
Completed(session, i, m) ==
  [session EXCEPT !.messages[m].content = Strip(@),
                  !.messages[m].citations = TRUE,
                  !.runs[i].status = "COMPLETED",
                  !.active_run_id = 0]

\* lines 408-455: stream_answer has returned the chunks it passed to on_delta,
\* joined and stripped.  citations_ok: build_citations returns.
PipeComplete(r, store_ok, citations_ok, handler_store_ok) ==
  /\ pipe[r].pc = "streaming"
  /\ LET s == pipe[r].session
     IN IF s \notin DOMAIN sessions
          THEN Raise(sessions, sdisk, chatEvents, s, r, handler_store_ok)
          ELSE LET i == _run_by_id(sessions[s], r)
                   m == IF i = 0 THEN 0
                        ELSE _message_by_id(sessions[s],
                               sessions[s].runs[i].assistant_message_id)
                   answered == [sessions[s] EXCEPT
                                  !.messages[m].content = Strip(@)]
                   session == Summarised(Completed(sessions[s], i, m))
               IN IF i = 0 \/ m = 0 THEN Return(r)
                  ELSE IF ~citations_ok
                    THEN Raise((s :> answered) @@ sessions, sdisk, chatEvents,
                               s, r, handler_store_ok)
                  ELSE IF ~store_ok
                    THEN Raise((s :> session) @@ sessions, sdisk, chatEvents,
                               s, r, handler_store_ok)
                  ELSE /\ sessions' = (s :> session) @@ sessions
                       /\ sdisk' = (s :> session) @@ sdisk
                       /\ chatEvents' =
                            [chatEvents EXCEPT ![r] = @ \o CompletedEvents]
                       /\ pipe' = [pipe EXCEPT ![r].pc = "ended"]
                       /\ TaskExit(r)
  /\ UNCHANGED << jobVars, brokerVars, events >>

\* line 150: the result file of a job is no longer there
ResultFileRemoved(j) ==
  /\ resultAt[j] # {}
  /\ resultAt' = [resultAt EXCEPT ![j] = {}]
  /\ UNCHANGED << jobs, disk, active_job_id, processes, lock, procState,
                  runPc, streamPc, logPc, post_exit_checks, post_exit_polls,
                  cancelPc, terminated, createPc, chatVars, brokerVars,
                  events >>

(***************************************************************************)
(* The text of a range of pages of a PDF (src/webapi/chat_retrieval.py,    *)
(* _extract_pdf_text).  A document is the texts of its pages, as both      *)
(* readers give them; a text is a sequence of characters.                  *)
(***************************************************************************)
MaxPages == 2

PageTexts == { << >>, << "a" >>, << "b", "\n" >> }

Documents == UNION { [1..n -> PageTexts] : n \in 0..MaxPages }

\* the start_index and end_index of a call: before, in and past the pages
Indexes == 0..(MaxPages + 2)

Min(a, b) == IF a < b THEN a ELSE b

Max(a, b) == IF a > b THEN a ELSE b

\* "\n".join(snippets)
RECURSIVE Join(_)
Join(snippets) ==
  IF snippets = << >> THEN << >>
  ELSE IF Len(snippets) = 1 THEN snippets[1]
  ELSE snippets[1] \o << "\n" >> \o Join(Tail(snippets))

\* lines 193-196 and 214-217: the first and the last page read, from 1
PageRange(total_pages, start_index, end_index) ==
  LET start == Max(1, Min(start_index, total_pages))
      end == Min(total_pages, end_index)
  IN [start |-> start, end |-> IF end < start THEN start ELSE end]

\* lines 190-204 and 211-225: what one reader returns for the pages
ReadRange(pages, start_index, end_index) ==
  IF Len(pages) <= 0 THEN << >>
  ELSE LET r == PageRange(Len(pages), start_index, end_index)
       IN Strip(Join(SubSeq(pages, r.start, r.end)))

\* _extract_pdf_text: PyMuPDF first; PyPDF2 when PyMuPDF raises (mupdf_ok
\* is FALSE) or finds no text in the pages
_extract_pdf_text(pages, mupdf_ok, start_index, end_index) ==
  IF mupdf_ok /\ ( \/ Len(pages) <= 0
                   \/ ReadRange(pages, start_index, end_index) # << >> )
    THEN ReadRange(pages, start_index, end_index)
    ELSE ReadRange(pages, start_index, end_index)

ExtractCalls ==
  [ fn : {"_extract_pdf_text"}, pages : Documents, mupdf_ok : BOOLEAN,
    start_index : Indexes, end_index : Indexes, done : {FALSE},
    result : {<< >>} ]

\* the call returns
ExtractReturn ==
  /\ call.fn = "_extract_pdf_text"
  /\ ~call.done
  /\ call' = [call EXCEPT
                !.done = TRUE,
                !.result = _extract_pdf_text(call.pages, call.mupdf_ok,
                                             call.start_index, call.end_index)]
  /\ UNCHANGED << jobState, chatState, brokerVars, storeVars, chat_lock,
                  events >>

ExtractInit ==
  /\ InitJobs /\ InitChat /\ InitBroker /\ InitStore
  /\ chat_lock = NoHolder
  /\ call \in ExtractCalls

ExtractNext == ExtractReturn

ExtractSpec == ExtractInit /\ [][ExtractNext]_vars

(***************************************************************************)
(* chat_retrieval.py, parse_selection_response: the node ids an LLM        *)
(* answer selects, as the prompt of the answer step takes them.  The       *)
(* answer's node_list holds JSON strings and numbers.                      *)
(***************************************************************************)
MaxNodeList == 3
MaxNodes == 2

NodeItems ==
  { [int |-> FALSE, n |-> 0, s |-> "0001"],
    [int |-> FALSE, n |-> 0, s |-> "0002"],
    [int |-> FALSE, n |-> 0, s |-> "9999"],
    [int |-> TRUE, n |-> 1, s |-> ""] }

NodeIdTexts == {"0001", "0002", "1"}

NodeLists == UNION { [1..k -> NodeItems] : k \in 0..MaxNodeList }

\* str(item), lines 91 and 93
str(item) == IF item.int THEN ToString(item.n) ELSE item.s

\* the loop of lines 92-101, from item i on
RECURSIVE FilterFrom(_, _, _, _, _)
FilterFrom(node_list, i, allowed, max_nodes, filtered) ==
  IF i > Len(node_list) THEN filtered
  ELSE IF str(node_list[i]) \notin allowed
         THEN FilterFrom(node_list, i + 1, allowed, max_nodes, filtered)
  ELSE IF str(node_list[i]) \in Range(filtered)
         THEN FilterFrom(node_list, i + 1, allowed, max_nodes, filtered)
  ELSE IF Len(filtered) + 1 >= max_nodes
         THEN Append(filtered, str(node_list[i]))
  ELSE FilterFrom(node_list, i + 1, allowed, max_nodes,
                  Append(filtered, str(node_list[i])))

\* lines 90-102: the second component of the returned pair
parse_selection_response(node_list, valid_node_ids, max_nodes) ==
  FilterFrom(node_list, 1, valid_node_ids, max_nodes, << >>)

SelectionCalls ==
  [ fn : {"parse_selection_response"}, node_list : NodeLists,
    valid_node_ids : SUBSET NodeIdTexts, max_nodes : 0..MaxNodes,
    done : {FALSE}, result : {<< >>} ]

\* the call returns
SelectionReturn ==
  /\ call.fn = "parse_selection_response"
  /\ ~call.done
  /\ call' = [call EXCEPT
                !.done = TRUE,
                !.result = parse_selection_response(call.node_list,
                                                    call.valid_node_ids,
                                                    call.max_nodes)]
  /\ UNCHANGED << jobState, chatState, brokerVars, storeVars, chat_lock,
                  events >>

SelectionInit ==
  /\ InitJobs /\ InitChat /\ InitBroker /\ InitStore
  /\ chat_lock = NoHolder
  /\ call \in SelectionCalls

SelectionNext == SelectionReturn

SelectionSpec == SelectionInit /\ [][SelectionNext]_vars

(***************************************************************************)
(* progress.py: the stage a line of output or an entry of the JSON log     *)
(* signals.  A text is a sequence of fragments; a keyword occurs in a text *)
(* when it is one of its fragments.                                        *)
(***************************************************************************)
MaxWords == 2
MaxEntryKeys == 2

TextWords ==
  { "Parsing PDF", "TOC found", "toc_content", "Generating summaries",
    "Tree structure saved to", "large node", "COMPLETED", "queued", "..." }

Texts == UNION { [1..k -> TextWords] : k \in 0..MaxWords }

EntryKeys == { << "toc_content" >>, << "fixing " >>, << "note" >> }

EntryValues == UNION { [1..k -> TextWords] : k \in 0..1 }

\* a dict entry is the sequence of its (key, value) pairs, keys distinct;
\* any other entry is a text
LogEntries ==
  { [dict |-> TRUE, items |-> items, text |-> << >>] :
      items \in { s \in UNION { [1..k -> EntryKeys \X EntryValues] : k \in 0..MaxEntryKeys } :
                    \A a, b \in DOMAIN s : s[a][1] = s[b][1] => a = b } }
    \cup { [dict |-> FALSE, items |-> << >>, text |-> t] : t \in Texts }

\* the rules with the early stages first
SignalRules_EarlyFirst ==
  << [stage |-> "PARSING_INPUT", keywords |-> {"parsing pdf"}],
     [stage |-> "TOC_ANALYSIS", keywords |-> {"toc found", "toc_content"}],
     [stage |-> "REFINEMENT", keywords |-> {"large node", "fixing "}],
     [stage |-> "SUMMARIZATION", keywords |-> {"generating summaries"}],
     [stage |-> "FINALIZING", keywords |-> {"tree structure saved to"}] >>

\* lines 31-92: the rules, in the order of the table
_SIGNAL_RULES ==
  << [stage |-> "FINALIZING",
      keywords |-> {"parsing done, saving to file", "tree structure saved to"}],
     [stage |-> "SUMMARIZATION",
      keywords |-> {"generating summaries", "if_add_node_summary",
                    "doc_description", "generate_doc_description",
                    "generate_node_summary"}],
     [stage |-> "REFINEMENT",
      keywords |-> {"fix_incorrect_toc", "large node", "fixing ",
                    "incorrect_results", "maximum fix attempts"}],
     [stage |-> "INDEX_BUILD",
      keywords |-> {"meta_processor", "generate_toc", "verify_toc",
                    "check all items", "accuracy:", "process_no_toc",
                    "process_toc_"}],
     [stage |-> "TOC_ANALYSIS",
      keywords |-> {"find_toc_pages", "toc found", "toc_content",
                    "detect_page_index", "toc_transformer", "check_toc"}],
     [stage |-> "PARSING_INPUT",
      keywords |-> {"parsing pdf", "processing markdown file",
                    "extracting nodes from markdown",
                    "extracting text content from nodes",
                    "building tree from nodes"}] >>

\* str.lower of a fragment
lower_word(w) ==
  CASE w = "Parsing PDF" -> "parsing pdf"
    [] w = "TOC found" -> "toc found"
    [] w = "Generating summaries" -> "generating summaries"
    [] w = "Tree structure saved to" -> "tree structure saved to"
    [] w = "COMPLETED" -> "completed"
    [] OTHER -> w

\* text.lower(), line 104
lower(text) == [i \in DOMAIN text |-> lower_word(text[i])]

\* lines 99-100
_contains_any(text, needles) ==
  \E needle \in needles : \E i \in DOMAIN text : text[i] = needle

\* lines 103-108: the stage of the first rule of the table that matches
stage_from_text(text) ==
  LET hits == { i \in DOMAIN _SIGNAL_RULES :
                  _contains_any(lower(text), _SIGNAL_RULES[i].keywords) }
  IN IF hits = {} THEN "None"
     ELSE _SIGNAL_RULES[CHOOSE i \in hits : \A k \in hits : i <= k].stage

\* json.dumps(entry, ensure_ascii=False) of a dict, line 114: the keys and
\* the values between quotes, colons, commas and braces
RECURSIVE json_dumps_items(_)
json_dumps_items(items) ==
  IF items = << >> THEN << >>
  ELSE << "\"" >> \o Head(items)[1] \o << "\"", ": ", "\"" >>
         \o Head(items)[2] \o << "\"" >>
         \o (IF Len(items) > 1 THEN << ", " >> ELSE << >>)
         \o json_dumps_items(Tail(items))

json_dumps(items) == << "{" >> \o json_dumps_items(items) \o << "}" >>

\* lines 112-119: the serialised entry, then its values, then its keys (the
\* str of a string is the string)
candidates(entry) ==
  IF entry.dict
    THEN << json_dumps(entry.items) >>
           \o [i \in DOMAIN entry.items |-> entry.items[i][2]]
           \o [i \in DOMAIN entry.items |-> entry.items[i][1]]
    ELSE << entry.text >>

\* lines 111-125: the stage of the first candidate that signals one
stage_from_log_entry(entry) ==
  LET found == { i \in DOMAIN candidates(entry) :
                   stage_from_text(candidates(entry)[i]) # "None" }
  IN IF found = {} THEN "None"
     ELSE stage_from_text(candidates(entry)[CHOOSE i \in found : \A k \in found : i <= k])

StageCalls ==
  [ fn : {"stage_from_text"}, text : Texts, done : {FALSE}, result : {"None"} ]
    \cup [ fn : {"stage_from_log_entry"}, entry : LogEntries, done : {FALSE},
           result : {"None"} ]

\* stage_from_text returns
StageFromTextReturn ==
  /\ call.fn = "stage_from_text"
  /\ ~call.done
  /\ call' = [call EXCEPT !.done = TRUE, !.result = stage_from_text(call.text)]
  /\ UNCHANGED << jobState, chatState, brokerVars, storeVars, chat_lock,
                  events >>

\* stage_from_log_entry returns
StageFromLogEntryReturn ==
  /\ call.fn = "stage_from_log_entry"
  /\ ~call.done
  /\ call' = [call EXCEPT !.done = TRUE,
                          !.result = stage_from_log_entry(call.entry)]
  /\ UNCHANGED << jobState, chatState, brokerVars, storeVars, chat_lock,
                  events >>

StageInit ==
  /\ InitJobs /\ InitChat /\ InitBroker /\ InitStore
  /\ chat_lock = NoHolder
  /\ call \in StageCalls

StageNext == StageFromTextReturn \/ StageFromLogEntryReturn

StageSpec == StageInit /\ [][StageNext]_vars

Init == InitJobs /\ InitChat /\ InitBroker /\ InitLib

Next ==
  \/ Restart
  \/ \E c \in Clients : CreateCall(c)
  \/ \E c \in Clients : CreateAcquire(c)
  \/ \E c \in Clients : CreateFinish(c)
  \/ \E c \in Clients : CreateUploadFails(c)
  \/ \E j \in JobIds : ProcExit(j)
  \/ \E j \in JobIds : RunStart(j)
  \/ \E j \in JobIds : RunSpawned(j)
  \/ \E j \in JobIds : RunSpawnFails(j)
  \/ \E j \in JobIds, o \in {"found", "sleep", "timeout"} : DetectPoll(j, o)
  \/ \E j \in JobIds, rc \in ReturnCodes, f \in SUBSET Paths :
        RunFinalize(j, rc, f)
  \/ \E j \in JobIds : RunLocked(j)
  \/ \E j \in JobIds, s \in Sources, l \in Lines : ConsumeLine(j, s, l)
  \/ \E j \in JobIds, s \in Sources : ConsumeEOF(j, s)
  \/ \E j \in JobIds, e \in Batches(MaxBatch) : LogPoll(j, e)
  \/ \E j \in JobIds : CancelCall(j)
  \/ \E j \in JobIds : CancelTimeout(j)
  \/ \E j \in JobIds : CancelResume(j)
  \/ \E j \in JobIds : CancelLocked(j)

Spec == Init /\ [][Next]_vars

(***************************************************************************)
(* The Job Supervisor with the clients of the event stream of job          *)
(* TopicJob (main.py, stream_job_events): a client subscribes, takes the   *)
(* events of its queue and unsubscribes when its connection ends.          *)
(***************************************************************************)
\* a call of a client of the stream
StreamCall ==
  /\ events < MaxEvents
  /\ events' = events + 1
  /\ UNCHANGED << jobVars, chatVars >>

\* main.py, line 100
StreamSubscribe(c) == StreamCall /\ Subscribe("job", c)

\* main.py, line 107
StreamDequeue(c) ==
  /\ Dequeue("job", c)
  /\ UNCHANGED << jobVars, chatVars, events >>

\* main.py, line 113
StreamUnsubscribe(c) == StreamCall /\ Unsubscribe("job", c)

JobEventNext ==
  \/ Next
  \/ \E c \in Clients : StreamSubscribe(c)
  \/ \E c \in Clients : StreamDequeue(c)
  \/ \E c \in Clients : StreamUnsubscribe(c)

JobEventSpec == Init /\ [][JobEventNext]_vars

\* The store alone: saves of jobs and sessions, and crashes inside them.
StoreSpec == Init /\ [][StoreNext]_vars

(***************************************************************************)
(* The Chat Supervisor over a store of finished jobs: jobs 1 and 2 are     *)
(* COMPLETED with their result files in place, every other job is FAILED. *)
(***************************************************************************)
ReadyJobs == {1, 2}

FinishedJob(j) ==
  IF j \in ReadyJobs
    THEN Finalised([CreatedJob EXCEPT !.status = "RUNNING", !.pid = TRUE],
                   0, {"expected"})
    ELSE Finalised([CreatedJob EXCEPT !.status = "RUNNING", !.pid = TRUE], 1, {})

ChatInit ==
  /\ jobs = [j \in JobIds |-> FinishedJob(j)]
  /\ disk = [j \in JobIds |-> FinishedJob(j)]
  /\ active_job_id = 0
  /\ processes = {}
  /\ lock = 0
  /\ procState = [j \in JobIds |-> "none"]
  /\ resultAt = [j \in JobIds |-> IF j \in ReadyJobs THEN {"expected"} ELSE {}]
  /\ runPc = [j \in JobIds |-> "none"]
  /\ streamPc = [j \in JobIds |-> [s \in Sources |-> "none"]]
  /\ logPc = [j \in JobIds |-> "none"]
  /\ post_exit_checks = [j \in JobIds |-> 0]
  /\ post_exit_polls = [j \in JobIds |-> 0]
  /\ cancelPc = [j \in JobIds |-> "idle"]
  /\ terminated = {}
  /\ createPc = [c \in Clients |-> "idle"]
  /\ events = 0
  /\ InitChat
  /\ InitBroker
  /\ InitLib

ChatNext ==
  \/ ChatRestart
  \/ \E j \in JobIds, ok \in BOOLEAN : CreateSession(j, ok)
  \/ \E s \in Ids : DeleteSession(s)
  \/ \E j \in JobIds : ClearSessionsForJob(j)
  \/ \E s \in Ids, c \in Contents, ok \in BOOLEAN : StartMessageRun(s, c, ok)
  \/ \E r \in Ids, l \in BOOLEAN, ok \in BOOLEAN : PipeInit(r, l, ok)
  \/ \E r \in Ids, ok \in BOOLEAN : PipeSelectFails(r, ok)
  \/ \E r \in Ids, ok \in BOOLEAN, c \in BOOLEAN, h \in BOOLEAN :
        PipeRetrieved(r, ok, c, h)
  \/ \E r \in Ids, d \in Chunks, ok \in BOOLEAN : PipeDelta(r, d, ok)
  \/ \E r \in Ids, ok \in BOOLEAN : PipeStreamFails(r, ok)
  \/ \E r \in Ids, ok \in BOOLEAN, c \in BOOLEAN, h \in BOOLEAN :
        PipeComplete(r, ok, c, h)
  \/ \E j \in JobIds : ResultFileRemoved(j)

ChatSpec == ChatInit /\ [][ChatNext]_vars

(***************************************************************************)
(* POST /api/jobs/{id}/chat/sessions, the endpoint of create_session: the  *)
(* status of the answer by the outcome of the call.  NotFound (an unknown  *)
(* job, no result file, a result file missing on disk) is answered with    *)
(* 404, a job that is not COMPLETED with 409, a session created with 201.  *)
(***************************************************************************)
CreateSessionStatus(outcome) ==
  CASE outcome = "ok" -> 201
    [] outcome = "Validation" -> 409
    [] outcome \in {"JobNotFound", "FileNotFound"} -> 404

\* the answer to a request for job job_id made now
PostChatSession(job_id) == CreateSessionStatus(_validate_job_ready(job_id))

\* The Job Supervisor with requests for chat sessions on its jobs, whatever
\* their status, and result files that go away.
SessionNext ==
  \/ Next
  \/ \E j \in JobIds, ok \in BOOLEAN : CreateSession(j, ok)
  \/ \E j \in JobIds : ResultFileRemoved(j)

SessionSpec == Init /\ [][SessionNext]_vars

(***************************************************************************)
(* The event broker of the two supervisors at work: either job TopicJob is *)
(* running, or run TopicRun of session TopicSession, a session of the      *)
(* finished job TopicJob, is running; the task publishes events, one       *)
(* _publish call a step, and clients come and go.  _publish has no await   *)
(* in it, so a call is one step.                                           *)
(***************************************************************************)
MaxBrokerOps == 4

Margin == 2

\* The two supervisors share no listeners table: a behaviour follows the
\* topic of one of them.
OnlyTopic(t) ==
  \A u \in Topics \ {t} : published[u] = 0 /\ listeners[u] = << >>

\* The clients act while few events have been published on the topic or
\* while the topic is near the capacity of its queues; in between the
\* supervisor publishes alone.
Window(t) ==
  \/ published[t] <= Margin
  \/ published[t] >= maxsize(t) - Margin

MaxPublished(t) == maxsize(t) + Margin

\* the topic has a task that publishes
Publishing(t) ==
  IF t = "job"
    THEN TopicJob \in DOMAIN jobs /\ jobs[TopicJob].status = "RUNNING"
    ELSE TopicRun \in tasks

\* what the task publishes: a job.update (_emit_update), a chat.answer.delta
\* (on_delta)
Emitted(t) ==
  IF t = "job" THEN JobUpdate(jobs[TopicJob])
  ELSE Event("chat.answer.delta", [run_id |-> TopicRun])

\* a task of the supervisor calls _publish on topic t
Emit(t) ==
  /\ OnlyTopic(t)
  /\ Publishing(t)
  /\ published[t] < MaxPublished(t)
  /\ published' = [published EXCEPT ![t] = @ + 1]
  /\ queue' = [queue EXCEPT ![t] =
                 Broker_publish(t, listeners[t], queue[t],
                                Item(published[t] + 1, Emitted(t)))]
  /\ UNCHANGED << jobVars, chatVars, listeners, keys, received, events >>

\* a call or a read of a client on topic t
ClientStep(t) ==
  /\ OnlyTopic(t)
  /\ Window(t)
  /\ published[t] + Len(SubscribeEvents(t)) <= MaxPublished(t)
  /\ events < MaxBrokerOps
  /\ events' = events + 1
  /\ UNCHANGED << jobVars, chatVars >>

BrokerSubscribe(t, c) == ClientStep(t) /\ Subscribe(t, c)

BrokerDequeue(t, c) == ClientStep(t) /\ Dequeue(t, c)

BrokerUnsubscribe(t, c) == ClientStep(t) /\ Unsubscribe(t, c)

\* the job after lines 245-262 of _run_job
RunningJob ==
  _append_activity([CreatedJob EXCEPT !.status = "RUNNING", !.pid = TRUE],
                   "system", 0)

\* Job TopicJob is running, its process alive; there is no session.
JobBrokerInit ==
  /\ jobs = (TopicJob :> RunningJob)
  /\ disk = jobs
  /\ active_job_id = TopicJob
  /\ processes = {TopicJob}
  /\ lock = 0
  /\ procState = [j \in JobIds |-> IF j = TopicJob THEN "alive" ELSE "none"]
  /\ resultAt = [j \in JobIds |-> {}]
  /\ runPc = [j \in JobIds |-> IF j = TopicJob THEN "detect" ELSE "none"]
  /\ streamPc = [j \in JobIds |->
                   [s \in Sources |->
                      IF j = TopicJob THEN "reading" ELSE "none"]]
  /\ logPc = [j \in JobIds |-> "none"]
  /\ post_exit_checks = [j \in JobIds |-> 0]
  /\ post_exit_polls = [j \in JobIds |-> 0]
  /\ cancelPc = [j \in JobIds |-> "idle"]
  /\ terminated = {}
  /\ createPc = [c \in Clients |-> "idle"]
  /\ events = 0
  /\ InitChat
  /\ InitBroker
  /\ InitLib

\* The jobs are finished; session TopicSession of job TopicJob has run
\* TopicRun started.
ChatBrokerInit ==
  /\ jobs = [j \in JobIds |-> FinishedJob(j)]
  /\ disk = jobs
  /\ active_job_id = 0
  /\ processes = {}
  /\ lock = 0
  /\ procState = [j \in JobIds |-> "none"]
  /\ resultAt = [j \in JobIds |-> IF j \in ReadyJobs THEN {"expected"} ELSE {}]
  /\ runPc = [j \in JobIds |-> "none"]
  /\ streamPc = [j \in JobIds |-> [s \in Sources |-> "none"]]
  /\ logPc = [j \in JobIds |-> "none"]
  /\ post_exit_checks = [j \in JobIds |-> 0]
  /\ post_exit_polls = [j \in JobIds |-> 0]
  /\ cancelPc = [j \in JobIds |-> "idle"]
  /\ terminated = {}
  /\ createPc = [c \in Clients |-> "idle"]
  /\ sessions = (TopicSession :>
                   Summarised(Started(NewSession(TopicJob), TopicRun,
                                      << "a" >>)))
  /\ sdisk = sessions
  /\ pipe = [r \in Ids |->
               IF r = TopicRun THEN [pc |-> "init", session |-> TopicSession]
                               ELSE [pc |-> "none", session |-> 0]]
  /\ chatEvents = [r \in Ids |->
                     IF r = TopicRun THEN << "chat.run.started" >> ELSE << >>]
  /\ tasks = {TopicRun}
  /\ events = 0
  /\ InitBroker
  /\ InitLib

BrokerInit == JobBrokerInit \/ ChatBrokerInit

BrokerNext ==
  \/ \E t \in Topics : Emit(t)
  \/ \E t \in Topics, c \in Clients : BrokerSubscribe(t, c)
  \/ \E t \in Topics, c \in Clients : BrokerDequeue(t, c)
  \/ \E t \in Topics, c \in Clients : BrokerUnsubscribe(t, c)

BrokerSpec == BrokerInit /\ [][BrokerNext]_vars

(***************************************************************************)
(* The Chat Supervisor with its lock in view.  A section under             *)
(* "async with self.lock" is two steps here: the task takes the lock, then *)
(* runs the section and gives the lock up (with the code that follows, to  *)
(* its next await or to the next "async with").  The events of run         *)
(* TopicRun of session TopicSession go to the queues of its key.  A run id *)
(* is a fresh uuid: a client subscribes with a run id once                 *)
(* start_message_run has returned it.                                      *)
(***************************************************************************)
Holder(kind, id, s, content) ==
  [kind |-> kind, id |-> id, session |-> s, content |-> content]

Holds(kind, id) == chat_lock.kind = kind /\ chat_lock.id = id

Free == chat_lock = NoHolder

\* "async with self.lock", the entry: the lock is free
Acquire(holder) == Free /\ chat_lock' = holder

\* "async with self.lock", the exit, also by an exception
Release == chat_lock' = NoHolder

\* _publish, lines 109-116, of what this step adds to the events of run r
\* of session s: the events go to the queues of the listeners of the key
ChatPublish(s, r) ==
  LET es == SubSeq(chatEvents'[r], Len(chatEvents[r]) + 1, Len(chatEvents'[r]))
  IN IF s = TopicSession /\ r = TopicRun /\ listeners["chat"] # << >> /\ es # << >>
       THEN /\ queue' = [queue EXCEPT !["chat"] =
                           PublishAll("chat", listeners["chat"], queue["chat"],
                                      [i \in DOMAIN es |-> Event(es[i], [run_id |-> r])],
                                      published["chat"] + 1)]
            /\ published' = [published EXCEPT !["chat"] = @ + Len(es)]
       ELSE UNCHANGED << queue, published >>

\* the ids of the runs of the sessions and of the tasks
RunsInUse ==
  { r \in Ids : \/ pipe[r].pc # "none"
                \/ \E s \in DOMAIN sessions : _run_by_id(sessions[s], r) # 0 }

\* start_message_run, lines 242-246: a call on session s with a content that
\* is not blank enters the locked section
StartAcquire(s, content) ==
  /\ Strip(content) # << >>
  /\ events < MaxLockEvents
  /\ LockRuns \ RunsInUse # {}
  /\ Acquire(Holder("start_message_run", s, s, content))
  /\ UNCHANGED << jobState, storeVars, call, chatState, brokerVars, events >>

\* start_message_run, lines 247-314: the locked section; r is the new run id
StartLocked(r, store_ok) ==
  /\ chat_lock.kind = "start_message_run"
  /\ r \notin RunsInUse
  /\ LET s == chat_lock.session
     IN IF StartOutcome(s, chat_lock.content) # "Accepted"
          THEN UNCHANGED << chatState, queue, published, events >>
          ELSE /\ events' = events + 1
               /\ Chat_persist(sessions, sdisk, s,
                               Started(sessions[s], r, chat_lock.content),
                               store_ok)
               /\ IF store_ok
                    THEN /\ chatEvents' =
                              _publish(chatEvents, r, "chat.run.started")
                         /\ pipe' = [pipe EXCEPT ![r] =
                                       [pc |-> "init", session |-> s]]
                         /\ tasks' = tasks \cup {r}
                    ELSE UNCHANGED << chatEvents, pipe, tasks >>
               /\ ChatPublish(s, r)
  /\ Release
  /\ UNCHANGED << jobState, storeVars, call, listeners, keys, received >>

\* delete_session, line 203
DeleteAcquire(s) ==
  /\ Acquire(Holder("delete_session", s, s, << >>))
  /\ UNCHANGED << jobState, storeVars, call, chatState, brokerVars, events >>

\* delete_session, lines 204-209
DeleteLocked ==
  /\ chat_lock.kind = "delete_session"
  /\ IF DeleteOutcome(chat_lock.session) # "Deleted"
       THEN UNCHANGED << sessions, sdisk, brokerVars >>
       ELSE /\ sessions' = [t \in DOMAIN sessions \ {chat_lock.session} |-> sessions[t]]
            /\ sdisk' = [t \in DOMAIN sdisk \ {chat_lock.session} |-> sdisk[t]]
            /\ StaleKeysPopped({chat_lock.session})
  /\ Release
  /\ UNCHANGED << jobState, storeVars, call, pipe, chatEvents, tasks, events >>

\* subscribe, lines 225-228, with the id of a run start_message_run returned
SubscribeAcquire(c) ==
  /\ c \notin Range(listeners["chat"])
  /\ SubscribeOutcome("chat") = "Subscribed"
  /\ pipe[TopicRun].pc # "none"
  /\ pipe[TopicRun].session = TopicSession
  /\ Acquire(Holder("subscribe", c, TopicSession, << >>))
  /\ UNCHANGED << jobState, storeVars, call, chatState, brokerVars, events >>

\* subscribe, lines 229-230
SubscribeLocked(c) ==
  /\ Holds("subscribe", c)
  /\ Subscribe("chat", c)
  /\ Release
  /\ UNCHANGED << jobState, storeVars, call, chatState, events >>

\* unsubscribe, line 234
UnsubscribeAcquire(c) ==
  /\ c \in Range(listeners["chat"])
  /\ Acquire(Holder("unsubscribe", c, TopicSession, << >>))
  /\ UNCHANGED << jobState, storeVars, call, chatState, brokerVars, events >>

\* unsubscribe, lines 235-239
UnsubscribeLocked(c) ==
  /\ Holds("unsubscribe", c)
  /\ IF c \in Range(listeners["chat"])
       THEN Unsubscribe("chat", c)
       ELSE UNCHANGED brokerVars
  /\ Release
  /\ UNCHANGED << jobState, storeVars, call, chatState, events >>

\* the stream of client c takes the next item of its queue
RunStreamDequeue(c) ==
  /\ Dequeue("chat", c)
  /\ UNCHANGED << jobVars, chatState, events >>

\* where _run_pipeline and on_delta enter "async with self.lock": lines 318,
\* 351, 386, 416 and 457
LockPoints == {"init", "selected", "delta", "streamed", "raised"}

\* where _run_pipeline waits for the LLM: lines 343 and 408
Waiting == {"selecting", "streaming"}

PipeAcquire(r) ==
  /\ pipe[r].pc \in LockPoints
  /\ Acquire(Holder("_run_pipeline", r, pipe[r].session, << >>))
  /\ UNCHANGED << jobState, storeVars, call, chatState, brokerVars, events >>

\* the step of the pipeline of run r moves it to pc; nothing else changes
Goes(r, pc) ==
  /\ pipe' = [pipe EXCEPT ![r].pc = pc]
  /\ UNCHANGED << sessions, sdisk, chatEvents, tasks >>

\* a first section that goes on to the await of select_nodes with the lock
PipeSetup_LockKept(r, loaded) ==
  /\ pipe[r].pc = "init"
  /\ Holds("_run_pipeline", r)
  /\ Goes(r, "selecting")
  /\ UNCHANGED << jobVars, brokerVars, events >>

\* lines 318-349: the first section, the result file and the call of
\* select_nodes, to its await.  loaded: the file is read and holds a structure
PipeSetup(r, loaded) ==
  /\ pipe[r].pc = "init"
  /\ Holds("_run_pipeline", r)
  /\ LET s == pipe[r].session
     IN IF s \notin DOMAIN sessions THEN Goes(r, "raised")
        ELSE LET i == _run_by_id(sessions[s], r)
             IN IF i = 0 THEN Return(r)
                ELSE IF \/ _message_by_id(sessions[s],
                               sessions[s].runs[i].user_message_id) = 0
                        \/ _message_by_id(sessions[s],
                               sessions[s].runs[i].assistant_message_id) = 0
                        \/ _validate_job_ready(sessions[s].job_id) # "ok"
                        \/ ~loaded
                       THEN Goes(r, "raised")
                       ELSE Goes(r, "selecting")
  /\ Release
  /\ UNCHANGED << jobState, storeVars, call, brokerVars, events >>

\* line 343: select_nodes returns
SelectReturns(r) ==
  /\ pipe[r].pc = "selecting"
  /\ Goes(r, "selected")
  /\ UNCHANGED << jobVars, brokerVars, events >>

\* line 343: select_nodes raises
SelectRaises(r) ==
  /\ pipe[r].pc = "selecting"
  /\ Goes(r, "raised")
  /\ UNCHANGED << jobVars, brokerVars, events >>

\* lines 351-414: the second section, the context and the call of
\* stream_answer, to its await
PipeRecord(r, store_ok, context_ok) ==
  /\ pipe[r].pc = "selected"
  /\ Holds("_run_pipeline", r)
  /\ LET s == pipe[r].session
     IN IF s \notin DOMAIN sessions
          THEN Goes(r, "raised") /\ UNCHANGED << queue, published >>
          ELSE LET i == _run_by_id(sessions[s], r)
                   session == [sessions[s] EXCEPT !.runs[i].selected = TRUE]
               IN IF i = 0 THEN Return(r) /\ UNCHANGED << queue, published >>
                  ELSE /\ Chat_persist(sessions, sdisk, s, session, store_ok)
                       /\ chatEvents' =
                            IF store_ok
                              THEN _publish(chatEvents, r,
                                            "chat.retrieval.completed")
                              ELSE chatEvents
                       /\ pipe' = [pipe EXCEPT ![r].pc =
                                     IF store_ok /\ context_ok
                                       THEN "streaming" ELSE "raised"]
                       /\ UNCHANGED tasks
                       /\ ChatPublish(s, r)
  /\ Release
  /\ UNCHANGED << jobState, storeVars, call, listeners, keys, received, events >>

\* chat_retrieval.py, lines 401-406: the stream yields a chunk and
\* stream_answer calls on_delta
ChunkArrives(r) ==
  /\ pipe[r].pc = "streaming"
  /\ events < MaxLockEvents
  /\ events' = events + 1
  /\ Goes(r, "delta")
  /\ UNCHANGED << jobVars, brokerVars >>

\* lines 386-406: on_delta
on_delta(r, delta) ==
  /\ pipe[r].pc = "delta"
  /\ Holds("_run_pipeline", r)
  /\ LET s == pipe[r].session
     IN IF s \notin DOMAIN sessions
          THEN Goes(r, "raised") /\ UNCHANGED << queue, published >>
          ELSE LET m == _message_by_id(sessions[s], AssistantMessageId(r))
               IN IF m = 0
                    THEN Goes(r, "streaming") /\ UNCHANGED << queue, published >>
                    ELSE /\ sessions' = [sessions EXCEPT
                                ![s].messages[m].content = @ \o delta]
                         /\ chatEvents' =
                              _publish(chatEvents, r, "chat.answer.delta")
                         /\ pipe' = [pipe EXCEPT ![r].pc = "streaming"]
                         /\ UNCHANGED << sdisk, tasks >>
                         /\ ChatPublish(s, r)
  /\ Release
  /\ UNCHANGED << jobState, storeVars, call, listeners, keys, received, events >>

\* line 408: stream_answer returns
StreamReturns(r) ==
  /\ pipe[r].pc = "streaming"
  /\ Goes(r, "streamed")
  /\ UNCHANGED << jobVars, brokerVars, events >>

\* line 408: stream_answer raises
StreamRaises(r) ==
  /\ pipe[r].pc = "streaming"
  /\ Goes(r, "raised")
  /\ UNCHANGED << jobVars, brokerVars, events >>

\* lines 416-455: the last section
PipeFinish(r, store_ok, citations_ok) ==
  /\ pipe[r].pc = "streamed"
  /\ Holds("_run_pipeline", r)
  /\ LET s == pipe[r].session
     IN IF s \notin DOMAIN sessions
          THEN Goes(r, "raised") /\ UNCHANGED << queue, published >>
          ELSE LET i == _run_by_id(sessions[s], r)
                   m == IF i = 0 THEN 0
                        ELSE _message_by_id(sessions[s],
                               sessions[s].runs[i].assistant_message_id)
                   answered == [sessions[s] EXCEPT
                                  !.messages[m].content = Strip(@)]
                   session == Completed(sessions[s], i, m)
               IN IF i = 0 \/ m = 0
                    THEN Return(r) /\ UNCHANGED << queue, published >>
                  ELSE IF ~citations_ok
                    THEN /\ sessions' = (s :> answered) @@ sessions
                         /\ pipe' = [pipe EXCEPT ![r].pc = "raised"]
                         /\ UNCHANGED << sdisk, chatEvents, tasks, queue,
                                         published >>
                  ELSE IF ~store_ok
                    THEN /\ Chat_persist(sessions, sdisk, s, session, FALSE)
                         /\ pipe' = [pipe EXCEPT ![r].pc = "raised"]
                         /\ UNCHANGED << chatEvents, tasks, queue, published >>
                  ELSE /\ Chat_persist(sessions, sdisk, s, session, TRUE)
                       /\ chatEvents' =
                            [chatEvents EXCEPT ![r] = @ \o CompletedEvents]
                       /\ pipe' = [pipe EXCEPT ![r].pc = "ended"]
                       /\ TaskExit(r)
                       /\ ChatPublish(s, r)
  /\ Release
  /\ UNCHANGED << jobState, storeVars, call, listeners, keys, received, events >>

\* lines 456-480: the handler of an exception of the pipeline
PipeFail(r, store_ok) ==
  /\ pipe[r].pc = "raised"
  /\ Holds("_run_pipeline", r)
  /\ Raise(sessions, sdisk, chatEvents, pipe[r].session, r, store_ok)
  /\ ChatPublish(pipe[r].session, r)
  /\ Release
  /\ UNCHANGED << jobState, storeVars, call, listeners, keys, received, events >>

\* The jobs are finished; two sessions of job TopicJob have been created.
LockInit ==
  /\ jobs = [j \in JobIds |-> FinishedJob(j)]
  /\ disk = jobs
  /\ active_job_id = 0
  /\ processes = {}
  /\ lock = 0
  /\ procState = [j \in JobIds |-> "none"]
  /\ resultAt = [j \in JobIds |-> IF j \in ReadyJobs THEN {"expected"} ELSE {}]
  /\ runPc = [j \in JobIds |-> "none"]
  /\ streamPc = [j \in JobIds |-> [s \in Sources |-> "none"]]
  /\ logPc = [j \in JobIds |-> "none"]
  /\ post_exit_checks = [j \in JobIds |-> 0]
  /\ post_exit_polls = [j \in JobIds |-> 0]
  /\ cancelPc = [j \in JobIds |-> "idle"]
  /\ terminated = {}
  /\ createPc = [c \in Clients |-> "idle"]
  /\ sessions = [s \in LockSessions |-> Summarised(NewSession(TopicJob))]
  /\ sdisk = sessions
  /\ pipe = [r \in Ids |-> [pc |-> "none", session |-> 0]]
  /\ chatEvents = [r \in Ids |-> << >>]
  /\ tasks = {}
  /\ events = 0
  /\ InitBroker
  /\ InitLib

LockNext ==
  \/ \E s \in LockSessions, t \in Contents : StartAcquire(s, t)
  \/ \E r \in LockRuns, ok \in BOOLEAN : StartLocked(r, ok)
  \/ \E s \in LockSessions : DeleteAcquire(s)
  \/ DeleteLocked
  \/ \E c \in Clients : SubscribeAcquire(c)
  \/ \E c \in Clients : SubscribeLocked(c)
  \/ \E c \in Clients : UnsubscribeAcquire(c)
  \/ \E c \in Clients : UnsubscribeLocked(c)
  \/ \E c \in Clients : RunStreamDequeue(c)
  \/ \E r \in LockRuns : PipeAcquire(r)
  \/ \E r \in LockRuns, l \in BOOLEAN : PipeSetup(r, l)
  \/ \E r \in LockRuns : SelectReturns(r)
  \/ \E r \in LockRuns : SelectRaises(r)
  \/ \E r \in LockRuns, ok \in BOOLEAN, c \in BOOLEAN : PipeRecord(r, ok, c)
  \/ \E r \in LockRuns : ChunkArrives(r)
  \/ \E r \in LockRuns, d \in Chunks : on_delta(r, d)
  \/ \E r \in LockRuns : StreamReturns(r)
  \/ \E r \in LockRuns : StreamRaises(r)
  \/ \E r \in LockRuns, ok \in BOOLEAN, c \in BOOLEAN : PipeFinish(r, ok, c)
  \/ \E r \in LockRuns, ok \in BOOLEAN : PipeFail(r, ok)

LockSpec == LockInit /\ [][LockNext]_vars

(***************************************************************************)
(* A long run of job TopicJob: its output goes past the caps of            *)
(* stdout_tail and activity.  The first lines and entries and the last are *)
(* any; in between the run writes plain lines to its stdout.               *)
(***************************************************************************)
MaxTail == ActivityMax + Margin

PlainLine == [stage |-> "None", saved |-> "None"]

TailLines == { PlainLine, [stage |-> "INDEX_BUILD", saved |-> "None"] }

TailWindow == events < Margin \/ events >= MaxTail - Margin

TailLine(source, line) ==
  /\ events < MaxTail
  /\ TailWindow \/ (source = "stdout" /\ line = PlainLine)
  /\ ReadLine(TopicJob, source, line)

TailLog(entries) ==
  /\ events + Len(entries) <= MaxTail
  /\ entries # << >>
  /\ TailWindow
  /\ ReadLog(TopicJob, entries)

TailDetect ==
  /\ events < Margin
  /\ DetectPoll(TopicJob, "found")

TailNext ==
  \/ \E s \in Sources, l \in TailLines : TailLine(s, l)
  \/ \E e \in Batches(MaxBatch) : TailLog(e)
  \/ TailDetect

TailSpec == JobBrokerInit /\ [][TailNext]_vars

(***************************************************************************)
(* The Job Supervisor's claims.                                            *)
(***************************************************************************)
Active(job) == job.status \in {"QUEUED", "RUNNING"}

HasLines(job, sources) ==
  \A s \in sources :
    \E i \in DOMAIN job.stdout_tail : job.stdout_tail[i].source = s

\* C1: whichever of the stdout consumer, the stderr consumer, the log
\* consumer and finalisation takes the next step, the rank of a job's stage
\* in STAGE_ORDER never decreases from one state of the job to the next.
C1_StageMonotonic ==
  [][\A j \in DOMAIN jobs :
        /\ j \in DOMAIN jobs'
        /\ stage_rank(jobs'[j].stage) >= stage_rank(jobs[j].stage)]_vars

\* A job that both stream consumers have read a line for and whose stage has
\* advanced.
C1_Witness ==
  \E j \in DOMAIN jobs :
    /\ HasLines(jobs[j], {"stdout", "stderr"})
    /\ stage_rank(jobs[j].stage) > 0

\* C2: once a job's status is COMPLETED, FAILED or CANCELLED it never
\* changes again, also when cancel_job resumes after the run task has
\* finalised the job.
C2_TerminalStatusFinal ==
  [][\A j \in DOMAIN jobs :
        jobs[j].status \in TerminalStatus
          => j \in DOMAIN jobs' /\ jobs'[j].status = jobs[j].status]_vars

\* C3: at most one job has status QUEUED or RUNNING, and a create_job call
\* gets past the conflict check (to read its upload and make a job) only
\* when no job has.
C3_SingleActiveJob ==
  /\ Cardinality({j \in DOMAIN jobs : Active(jobs[j])}) <= 1
  /\ \A c \in Clients :
       createPc[c] = "uploading" => \A j \in DOMAIN jobs : ~Active(jobs[j])

\* C4: if cancel_job was called while the subprocess was alive (terminate
\* was sent), then once cancel_job has returned and the run task has ended
\* the job's status is CANCELLED, whatever the exit code and the result
\* files, and the run task's finalisation never leaves the job COMPLETED or
\* FAILED.
C4_CancelledOnceBothDone ==
  \A j \in DOMAIN jobs :
    j \in terminated
      => /\ (cancelPc[j] = "idle" /\ runPc[j] = "done")
              => jobs[j].status = "CANCELLED"
         /\ runPc[j] \in {"lock_final", "lock_cancelled", "done"}
              => jobs[j].status \notin {"COMPLETED", "FAILED"}

\* C5: status is COMPLETED if and only if stage is COMPLETED and a result
\* file is recorded and exists.
C5_CompletedIffStageAndResult ==
  \A j \in DOMAIN jobs :
    jobs[j].status = "COMPLETED"
      <=> /\ jobs[j].stage = "COMPLETED"
          /\ jobs[j].result_file # "None"
          /\ jobs[j].result_file \in resultAt[j]

\* C6: when a new Job Supervisor has been constructed over the store a
\* crashed one left, no job has status RUNNING or QUEUED, in memory or on
\* disk.
C6_NoActiveJobAfterRestart ==
  [][Restart =>
       /\ \A j \in DOMAIN jobs' : ~Active(jobs'[j])
       /\ \A j \in DOMAIN disk' : ~Active(disk'[j])]_vars

\* C7: a run task never ends, normally or by an exception, with its job
\* left QUEUED or RUNNING or still the active job.
C7_RunTaskEndsTerminal ==
  \A j \in DOMAIN jobs :
    runPc[j] \in {"done", "dead"}
      => jobs[j].status \in TerminalStatus /\ active_job_id # j

\* C16: a cancel_job call on a job that is QUEUED or RUNNING and whose
\* process has not exited, spawned or not, is acted on (terminate, then
\* CANCELLED), and once a cancel_job call that was acted on has returned the
\* job is CANCELLED and stays so.
C16_CancelTakesEffect ==
  \A j \in DOMAIN jobs :
    /\ (Active(jobs[j]) /\ procState[j] # "exited" /\ cancelPc[j] = "idle")
         => CancelOutcome(j) = "Terminate"
    /\ (j \in terminated /\ cancelPc[j] = "idle")
         => jobs[j].status = "CANCELLED"

C18_RunningHasPid ==
  /\ \A j \in DOMAIN disk : disk[j].status = "RUNNING" => disk[j].pid
  /\ \A j \in DOMAIN jobs : jobs[j].status = "RUNNING" => jobs[j].pid

\* C33: whenever the status of a job changes from RUNNING to COMPLETED,
\* FAILED or CANCELLED within the life of a supervisor, its subprocess has
\* exited and has been waited for; no job has a terminal status while its
\* subprocess is alive.
C33_ReapedBeforeTerminal ==
  /\ [](\A j \in DOMAIN jobs :
          jobs[j].status \in TerminalStatus => procState[j] # "alive")
  /\ [][\A j \in DOMAIN jobs :
          ( /\ ~Restart
            /\ jobs[j].status = "RUNNING"
            /\ jobs'[j].status \in TerminalStatus )
            => procState[j] = "exited" /\ procState'[j] = "exited"]_vars

\* One job was cancelled and another has failed, each after the exit of
\* its subprocess.
C33_Witness ==
  \E j, k \in DOMAIN jobs :
    /\ jobs[j].status = "CANCELLED"
    /\ jobs[k].status = "FAILED"
    /\ procState[j] = "exited"
    /\ procState[k] = "exited"

\* C36: if a stream consumer has recorded result_file from a "tree structure
\* saved to:" line, finalisation leaves result_file as it is; the default
\* path, the expected result file, is assigned only when result_file is
\* still unset.
C36_RecordedResultFileKept ==
  [][\A j \in JobIds, rc \in ReturnCodes, files \in SUBSET Paths :
       ( /\ RunFinalize(j, rc, files)
         /\ ~AlreadyCancelled(jobs[j])
         /\ jobs[j].result_file # "None" )
         => jobs'[j].result_file = jobs[j].result_file]_vars

\* the steps that end the run task of job j or a cancel_job call on it
EndsRunOrCancel(j) ==
  \/ \E rc \in ReturnCodes, files \in SUBSET Paths : RunFinalize(j, rc, files)
  \/ RunLocked(j)
  \/ CancelResume(j)
  \/ CancelLocked(j)

\* C37: within the life of a supervisor, whenever the status of a job is
\* QUEUED or RUNNING, active_job_id is the id of that job; and the end of
\* the run task of a job, or a cancel of it, never clears an active_job_id
\* that names another job, created in the meantime.
C37_ActiveJobIdNamesTheActiveJob ==
  /\ [](\A j \in DOMAIN jobs : Active(jobs[j]) => active_job_id = j)
  /\ [][\A j \in JobIds :
          (EndsRunOrCancel(j) /\ active_job_id \notin {0, j})
            => active_job_id' = active_job_id]_vars

\* C38: once the status of a job is COMPLETED, FAILED or CANCELLED, its
\* stage, progress, result_file and stdout_tail never change again: no
\* stream consumer and no log consumer appends a line or advances the stage
\* of a terminal job, a cancelled one included.
C38_TerminalJobIsFrozen ==
  [][\A j \in DOMAIN jobs :
       jobs[j].status \in TerminalStatus
         => /\ j \in DOMAIN jobs'
            /\ jobs'[j].stage = jobs[j].stage
            /\ jobs'[j].progress = jobs[j].progress
            /\ jobs'[j].result_file = jobs[j].result_file
            /\ jobs'[j].stdout_tail = jobs[j].stdout_tail]_vars

\* a step changes the status, the stage or the result_file of job j
TransitionOf(j) ==
  /\ j \in DOMAIN jobs
  /\ j \in DOMAIN jobs'
  /\ \/ jobs'[j].status # jobs[j].status
     \/ jobs'[j].stage # jobs[j].stage
     \/ jobs'[j].result_file # jobs[j].result_file

\* C34: every change of the status, the stage or the result_file of a job,
\* and every change of the subscriber table of the jobs and of the process
\* table, is made while the lock of the Job Supervisor is held: no step of
\* a running supervisor makes one while the lock is free.
C34_ChangesUnderTheLock ==
  [][( /\ ~Restart
       /\ \/ \E j \in JobIds : TransitionOf(j)
          \/ processes' # processes
          \/ listeners'["job"] # listeners["job"] )
       => lock # 0]_vars

\* C24: in every persisted snapshot of a job, and in the job the supervisor
\* holds, progress is the fixed anchor STAGE_PROGRESS of the job's stage.
C24_ProgressIsStageAnchor ==
  /\ \A j \in DOMAIN disk : disk[j].progress = STAGE_PROGRESS(disk[j].stage)
  /\ \A j \in DOMAIN jobs : jobs[j].progress = STAGE_PROGRESS(jobs[j].stage)

\* A job persisted as COMPLETED, and a job persisted as FAILED at a stage a
\* line has advanced it to.
C24_Witness ==
  /\ \E j \in DOMAIN disk :
       disk[j].status = "COMPLETED" /\ disk[j].stage = "COMPLETED"
  /\ \E j \in DOMAIN disk :
       disk[j].status = "FAILED" /\ stage_rank(disk[j].stage) > 0

\* C28: constructing the Job Supervisor turns every job the store holds as
\* RUNNING into a FAILED job with the restart error, in memory and on disk,
\* with every other field (stage and progress among them) as it was stored,
\* and leaves every job stored with another status as it was.
C28_RestartFailsRunningJobs ==
  [][Restart =>
       /\ DOMAIN jobs' = DOMAIN disk
       /\ DOMAIN disk' = DOMAIN disk
       /\ \A j \in DOMAIN disk :
            /\ jobs'[j] = disk'[j]
            /\ jobs'[j] =
                 IF disk[j].status = "RUNNING"
                   THEN [disk[j] EXCEPT !.status = "FAILED",
                                        !.error = Error("restart", 0)]
                   ELSE disk[j]]_vars

\* A supervisor constructed over a store that held a RUNNING job at a stage
\* a line had advanced it to: the job is FAILED with the restart error, at
\* that stage, in memory and on disk.
C28_Witness ==
  \E j \in DOMAIN jobs \cap DOMAIN disk :
    /\ jobs[j].status = "FAILED"
    /\ jobs[j].error = Error("restart", 0)
    /\ stage_rank(jobs[j].stage) > 0
    /\ disk[j] = jobs[j]
    /\ runPc[j] = "none"

\* the places of the stderr lines in a tail
StderrAt(tail) == { i \in DOMAIN tail : tail[i].source = "stderr" }

\* the last of them
LastStderrAt(tail) ==
  CHOOSE i \in StderrAt(tail) : \A k \in StderrAt(tail) : k <= i

\* C27: when finalisation marks a job FAILED, its error is the first
\* available of: the error already set on the job; the last stderr line of
\* stdout_tail; "Process exited with code N" when the exit code N is not 0;
\* "Process completed but no result file was found".
C27_FailedErrorIsFirstAvailable ==
  [][\A j \in JobIds, rc \in ReturnCodes, files \in SUBSET Paths :
        ( /\ RunFinalize(j, rc, files)
          /\ ~AlreadyCancelled(jobs[j])
          /\ jobs'[j].status = "FAILED" )
        => jobs'[j].error =
             IF jobs[j].error # NoError THEN jobs[j].error
             ELSE IF StderrAt(jobs[j].stdout_tail) # {}
               THEN Error("stderr",
                          jobs[j].stdout_tail[
                            LastStderrAt(jobs[j].stdout_tail)].message)
             ELSE IF rc # 0 THEN Error("exit", rc)
             ELSE Error("noresult", 0)]_vars

\* A job finalised as FAILED after two stderr lines: its error is the
\* second.
C27_Witness ==
  \E j \in DOMAIN jobs :
    /\ jobs[j].status = "FAILED"
    /\ runPc[j] \in {"done", "lock_final"}
    /\ Cardinality(StderrAt(jobs[j].stdout_tail)) = 2
    /\ jobs[j].error =
         Error("stderr",
               jobs[j].stdout_tail[LastStderrAt(jobs[j].stdout_tail)].message)

(***************************************************************************)
(* The Chat Supervisor's claims.                                           *)
(***************************************************************************)
RunningRuns(session) ==
  { i \in DOMAIN session.runs : session.runs[i].status = "RUNNING" }

\* C8: each chat session has at most one run with status RUNNING; while a
\* session has a RUNNING run every start_message_run call on it with a
\* non-empty message comes to Conflict, and no step taken while the run is
\* RUNNING appends a message or a run to the session (a restart may put back
\* the shorter session of the store).
C8_OneRunningRunPerSession ==
  /\ [](\A s \in DOMAIN sessions :
          /\ Cardinality(RunningRuns(sessions[s])) <= 1
          /\ RunningRuns(sessions[s]) # {}
               => StartOutcome(s, << " ", "a" >>) = "Conflict")
  /\ [][\A s \in DOMAIN sessions :
          RunningRuns(sessions[s]) # {}
            => \/ s \notin DOMAIN sessions'
               \/ /\ Len(sessions'[s].runs) <= Len(sessions[s].runs)
                  /\ Len(sessions'[s].messages)
                       <= Len(sessions[s].messages)]_vars

\* A session whose second run is RUNNING after its first has ended: a start
\* was accepted, calls fell on the running run, and a later start was
\* accepted again.
C8_Witness ==
  \E s \in DOMAIN sessions :
    /\ Len(sessions[s].runs) = 2
    /\ sessions[s].runs[1].status = "COMPLETED"
    /\ sessions[s].runs[2].status = "RUNNING"

ActiveRunConsistent(session) ==
  /\ session.active_run_id # 0
       <=> \E i \in DOMAIN session.runs :
             /\ session.runs[i].id = session.active_run_id
             /\ session.runs[i].status = "RUNNING"
  /\ \A i \in DOMAIN session.runs :
       session.runs[i].status = "RUNNING"
         => session.runs[i].id = session.active_run_id

\* C9: in every session of the sessions map and in every session file,
\* active_run_id is set exactly when the run it names exists and is RUNNING,
\* and every RUNNING run is the one active_run_id names.
C9_ActiveRunIdIffRunning ==
  /\ \A s \in DOMAIN sessions : ActiveRunConsistent(sessions[s])
  /\ \A s \in DOMAIN sdisk : ActiveRunConsistent(sdisk[s])

\* A session with a completed run and no active run, in memory and on disk.
C9_Witness ==
  \E s \in DOMAIN sessions \cap DOMAIN sdisk :
    /\ sessions[s].active_run_id = 0
    /\ sdisk[s].active_run_id = 0
    /\ \E i \in DOMAIN sdisk[s].runs : sdisk[s].runs[i].status = "COMPLETED"

\* The grammar of a run's events as an automaton: 0 nothing emitted, 1 after
\* chat.run.started, 2 after chat.retrieval.completed, 3 after a
\* chat.answer.delta, 4 after chat.answer.completed, 5 after chat.run.completed
\* or chat.run.failed, 6 out of order.
EventStep(q, e) ==
  IF q = 0 /\ e = "chat.run.started" THEN 1
  ELSE IF q = 1 /\ e = "chat.retrieval.completed" THEN 2
  ELSE IF q \in {1, 2, 3} /\ e = "chat.answer.delta" THEN 3
  ELSE IF q \in {1, 2, 3} /\ e = "chat.answer.completed" THEN 4
  ELSE IF q = 4 /\ e = "chat.run.completed" THEN 5
  ELSE IF q \in {1, 2, 3} /\ e = "chat.run.failed" THEN 5
  ELSE 6

RECURSIVE EventState(_)
EventState(evs) ==
  IF evs = << >> THEN 0
  ELSE EventStep(EventState(SubSeq(evs, 1, Len(evs) - 1)), evs[Len(evs)])

\* C10: the events emitted for a run are, in order, chat.run.started, at most
\* one chat.retrieval.completed, any number of chat.answer.delta, and then
\* either chat.answer.completed with chat.run.completed right after it or one
\* chat.run.failed; nothing follows chat.run.completed or chat.run.failed.
C10_ChatEventOrder ==
  \A r \in Ids : EventState(chatEvents[r]) \in {0, 1, 2, 3, 5}

\* A run that has emitted the whole sequence of a completed run, and a run
\* that failed after its retrieval.
C10_Witness ==
  /\ \E r \in Ids :
       chatEvents[r] = << "chat.run.started", "chat.retrieval.completed",
                          "chat.answer.delta", "chat.answer.completed",
                          "chat.run.completed" >>
  /\ \E r \in Ids :
       chatEvents[r] = << "chat.run.started", "chat.retrieval.completed",
                          "chat.run.failed" >>

\* the run r of session s in the sessions map sess, and whether there is one
HasRun(sess, s, r) == s \in DOMAIN sess /\ _run_by_id(sess[s], r) # 0

RunOf(sess, s, r) == sess[s].runs[_run_by_id(sess[s], r)]

\* a step in which the pipeline task of run r ends by an exception: the task
\* ends and the run is not COMPLETED
Raised(r) ==
  /\ pipe[r].pc \in {"init", "selecting", "streaming"}
  /\ pipe'[r].pc = "ended"
  /\ ~(/\ HasRun(sessions', pipe[r].session, r)
       /\ RunOf(sessions', pipe[r].session, r).status = "COMPLETED")

\* what the except block leaves in memory: the run FAILED with the text of the
\* exception and no active run
FailedInMemory(r) ==
  LET s == pipe[r].session
  IN /\ HasRun(sessions', s, r)
     /\ RunOf(sessions', s, r).status = "FAILED"
     /\ RunOf(sessions', s, r).error = "exc"
     /\ sessions'[s].active_run_id = 0

\* the session is saved as it is in memory and chat.run.failed is the last
\* event of the run
PersistedAndEmitted(r) ==
  LET s == pipe[r].session
  IN /\ s \in DOMAIN sdisk'
     /\ sdisk'[s] = sessions'[s]
     /\ chatEvents'[r] # << >>
     /\ chatEvents'[r][Len(chatEvents'[r])] = "chat.run.failed"

\* the store write of the except block raised: the session file does not
\* have the run FAILED and no chat.run.failed is emitted
NeitherPersistedNorEmitted(r) ==
  LET s == pipe[r].session
  IN /\ ~(HasRun(sdisk', s, r) /\ RunOf(sdisk', s, r).status = "FAILED")
     /\ \A k \in DOMAIN chatEvents'[r] : chatEvents'[r][k] # "chat.run.failed"

\* C11: whenever a step of a run's pipeline raises, the run ends FAILED with
\* the exception text as its error, active_run_id is cleared, the session is
\* persisted and chat.run.failed is emitted.
C11_RaiseFailsPersistsEmits ==
  [][\A r \in Ids : Raised(r) => FailedInMemory(r) /\ PersistedAndEmitted(r)]_vars

\* What holds of a raising step: the run ends FAILED in memory with the
\* exception text and active_run_id cleared; the session is persisted and
\* chat.run.failed emitted if the store write of the except block succeeds,
\* and neither happens if it raises.
RaiseFailsRunInMemory ==
  [][\A r \in Ids :
       Raised(r) => /\ FailedInMemory(r)
                    /\ PersistedAndEmitted(r) \/ NeitherPersistedNorEmitted(r)]_vars

\* C12: every run start_message_run has added to a session ends COMPLETED or
\* FAILED: while it is RUNNING its pipeline task is in the task table (nothing
\* else ends a run short of a restart), a task that has ended has left the
\* table with its run COMPLETED or FAILED, and a session with no RUNNING run
\* does not refuse a start with Conflict.
C12_RunsEndAndFreeTheSession ==
  /\ \A s \in DOMAIN sessions :
       \A i \in RunningRuns(sessions[s]) : sessions[s].runs[i].id \in tasks
  /\ \A r \in Ids :
       pipe[r].pc = "ended"
         => /\ r \notin tasks
            /\ HasRun(sessions, pipe[r].session, r)
                 => RunOf(sessions, pipe[r].session, r).status
                      \in {"COMPLETED", "FAILED"}
  /\ \A s \in DOMAIN sessions :
       RunningRuns(sessions[s]) = {}
         => StartOutcome(s, << " ", "a" >>) # "Conflict"

\* C13: when a new Chat Supervisor has been constructed over the store a
\* crashed one left, whatever the point of a run it crashed at, no run of any
\* session is RUNNING: every run the store had RUNNING is FAILED with the
\* restart error, active_run_id is null, and the session file says the same.
C13_NoRunningRunAfterRestart ==
  [][ChatRestart =>
       /\ DOMAIN sessions' = DOMAIN sdisk
       /\ \A s \in DOMAIN sessions' :
            /\ RunningRuns(sessions'[s]) = {}
            /\ sessions'[s].active_run_id = 0
            /\ sessions'[s].active_run_status = "None"
            /\ s \in DOMAIN sdisk' /\ sdisk'[s] = sessions'[s]
            /\ \A i \in RunningRuns(sdisk[s]) :
                 /\ sessions'[s].runs[i].status = "FAILED"
                 /\ sessions'[s].runs[i].error = "restart"]_vars

\* A supervisor constructed after a crash during streaming: no task, and a
\* run that had its retrieval recorded is FAILED with the restart error in
\* memory and on disk.
C13_Witness ==
  \E s \in DOMAIN sessions \cap DOMAIN sdisk :
    /\ tasks = {}
    /\ sdisk[s] = sessions[s]
    /\ \E i \in DOMAIN sessions[s].runs :
         /\ sessions[s].runs[i].status = "FAILED"
         /\ sessions[s].runs[i].error = "restart"
         /\ sessions[s].runs[i].selected
         /\ chatEvents[sessions[s].runs[i].id]
              = << "chat.run.started", "chat.retrieval.completed",
                   "chat.answer.delta" >>

\* C14: delete_session on a session with a RUNNING run comes to Conflict; no
\* step of a supervisor removes a session from the sessions map or from the
\* store while one of its runs is RUNNING, and the session of a pipeline task
\* is always in the sessions map.
C14_NoDeleteWhileRunning ==
  /\ [](/\ \A s \in DOMAIN sessions :
             RunningRuns(sessions[s]) # {} => DeleteOutcome(s) = "Conflict"
        /\ \A r \in tasks : pipe[r].session \in DOMAIN sessions)
  /\ [][~ChatRestart =>
          \A s \in DOMAIN sessions :
            RunningRuns(sessions[s]) # {}
              => /\ s \in DOMAIN sessions'
                 /\ s \in DOMAIN sdisk => s \in DOMAIN sdisk']_vars

\* A session deleted after its run had ended, while the pipeline of another
\* session's RUNNING run is still at work.
C14_Witness ==
  /\ \E r \in Ids :
       pipe[r].pc = "ended" /\ pipe[r].session \notin DOMAIN sessions
  /\ \E r \in tasks :
       /\ pipe[r].session \in DOMAIN sdisk
       /\ RunningRuns(sessions[pipe[r].session]) # {}

\* C15: clear_sessions_for_job is all or nothing: if a session of the job
\* has a RUNNING run the call comes to Conflict and removes nothing;
\* otherwise it removes every session of the job and no other, from the
\* sessions map and the store, and the number it returns is the number of
\* sessions removed.
C15_ClearAllOrNothing ==
  /\ [](\A j \in JobIds :
          (\E s \in DOMAIN sessions :
             sessions[s].job_id = j /\ RunningRuns(sessions[s]) # {})
            => ClearOutcome(j) = "Conflict")
  /\ [][\A j \in JobIds :
          ClearSessionsForJob(j)
            => /\ \A s \in DOMAIN sessions :
                    sessions[s].job_id = j => RunningRuns(sessions[s]) = {}
               /\ \A s \in DOMAIN sessions :
                    IF sessions[s].job_id = j
                      THEN s \notin DOMAIN sessions' /\ s \notin DOMAIN sdisk'
                      ELSE /\ s \in DOMAIN sessions'
                           /\ sessions'[s] = sessions[s]
                           /\ s \in DOMAIN sdisk
                                => s \in DOMAIN sdisk' /\ sdisk'[s] = sdisk[s]
               /\ ClearCount(j)
                    = Cardinality(DOMAIN sessions \ DOMAIN sessions')]_vars

\* The session of an ended run is gone while a session of another job, with
\* a RUNNING run, is still there.
C15_Witness ==
  \E r \in Ids :
    /\ pipe[r].pc = "ended"
    /\ pipe[r].session \notin DOMAIN sessions
    /\ \E s \in DOMAIN sessions :
         sessions[s].job_id = 2 /\ RunningRuns(sessions[s]) # {}

QueueBefore(t, c) ==
  IF c \in Range(listeners[t]) THEN queue[t][c] ELSE << >>

Full(t, q) == Len(q) >= maxsize(t)

Last(q) == q[Len(q)]

AllButLast(q) == SubSeq(q, 1, Len(q) - 1)

\* C19: publishing an event never blocks or fails the supervisor: no queue
\* ever holds more than its capacity (200 for a job topic, 500 for a chat
\* topic); a publication is possible whatever the queues hold, and it always
\* completes; the event is appended to the queue of every subscriber of the
\* topic whose queue is not full, and a full queue is left as it is, so the
\* event is dropped for that subscriber only.
C19_PublishDropsOnlyForFullQueue ==
  /\ [](\A t \in Topics, c \in Clients : Len(queue[t][c]) <= maxsize(t))
  /\ [](\A t \in Topics :
          (OnlyTopic(t) /\ Publishing(t) /\ published[t] < MaxPublished(t))
            => ENABLED Emit(t))
  /\ [][\A t \in Topics :
          published'[t] # published[t] =>
            /\ published'[t] = published[t] + 1
            /\ \A c \in Range(listeners'[t]) :
                 IF Full(t, QueueBefore(t, c))
                   THEN queue'[t][c] = QueueBefore(t, c)
                   ELSE /\ Len(queue'[t][c]) = Len(QueueBefore(t, c)) + 1
                        /\ AllButLast(queue'[t][c]) = QueueBefore(t, c)
                        /\ Last(queue'[t][c]).n = published'[t]]_vars

\* An event has just been dropped for a subscriber whose queue is full, and
\* another subscriber of the topic has received it.
C19_Witness ==
  \E t \in Topics : \E c, d \in Range(listeners[t]) :
    /\ Full(t, queue[t][c])
    /\ Last(queue[t][c]).n < published[t]
    /\ queue[t][d] # << >>
    /\ Last(queue[t][d]).n = published[t]

\* what client c has taken from its queue on topic t, followed by what its
\* queue holds: the events it sees if it reads its queue to the end
Seen(t, c) == received[t][c] \o queue[t][c]

\* The events of q are events published on topic t, each after the one
\* before it in the order of publication: q is a subsequence of the
\* publications 1, 2, ..., published[t], nothing twice and nothing out of
\* order.
InEmissionOrder(t, q) ==
  /\ \A i \in DOMAIN q : q[i].n \in 1..published[t]
  /\ \A i \in DOMAIN q : i < Len(q) => q[i].n < q[i + 1].n

\* an event between two events of q is not in q
HasGap(q) == \E i \in DOMAIN q : i < Len(q) /\ q[i + 1].n > q[i].n + 1

\* C20: the events a subscriber of a job dequeues, and those still in its
\* queue after them, are a subsequence of the events emitted for the job,
\* in emission order: events may be missing, none comes twice or out of
\* order.
C20_DequeuedInEmissionOrder ==
  \A c \in Clients : InEmissionOrder("job", Seen("job", c))

\* A subscriber of the job has dequeued two events and has lost an event on
\* overflow.
C20_Witness ==
  \E c \in Range(listeners["job"]) :
    /\ Len(received["job"][c]) >= 2
    /\ HasGap(Seen("job", c))

\* C22: after any sequence of subscribe and unsubscribe calls a topic (a job
\* id of the Job Supervisor, a (session id, run id) pair of the Chat
\* Supervisor) has a key in the listeners table only if it has at least one
\* subscriber: the unsubscribe of the last subscriber removes the key.
C22_NoKeyWithoutSubscriber ==
  \A t \in keys : listeners[t] # << >>

\* the job.update with the job as it is
Snapshot == Item(published["job"] + 1, JobUpdate(jobs[TopicJob]))

\* C21: the first event in the queue subscribe(job_id) returns is a
\* job.update that carries the state of the job at the time of the call,
\* whatever the status of the job, a terminal one included.
C21_SubscribeStartsWithSnapshot ==
  [][\A c \in Clients :
       StreamSubscribe(c)
         => /\ queue'["job"][c] # << >>
            /\ Head(queue'["job"][c]) = Snapshot
            /\ received'["job"][c] = << >>]_vars

\* A client has subscribed to the finished job and holds its snapshot, while
\* another, subscribed before, has taken events of the run.
C21_Witness ==
  \E c, d \in Range(listeners["job"]) :
    /\ jobs[TopicJob].status = "COMPLETED"
    /\ Len(queue["job"][c]) = 1
    /\ queue["job"][c][1].event = "job.update"
    /\ queue["job"][c][1].data.job = jobs[TopicJob]
    /\ received["job"][d] # << >>

\* the events a step puts on the queue of subscriber c of the job
NewItems(c) ==
  SubSeq(queue'["job"][c], Len(queue["job"][c]) + 1, Len(queue'["job"][c]))

IsCompleted(item) == item.event = "job.completed"

\* lines 298-299: the exit code is 0 and the result file of the job, the
\* expected one if it is there, exists
ResultReady(job, rc, files) ==
  rc = 0 /\ WithExpectedResult(job, files).result_file \in files

\* C26: for a job that was not cancelled, the run task, after the exit of
\* the subprocess, sets status COMPLETED, with stage COMPLETED and progress
\* 1.0, exactly when the exit code is 0 and the result file exists, and sets
\* status FAILED with a non-empty error in every other case; job.completed
\* is published on the COMPLETED path only, and before the last job.update
\* of the finalisation, which carries the finalised job.
C26_FinalisationByExitAndResult ==
  /\ [][\A j \in JobIds, rc \in ReturnCodes, files \in SUBSET Paths :
          (RunFinalize(j, rc, files) /\ ~AlreadyCancelled(jobs[j]))
            => /\ IF ResultReady(jobs[j], rc, files)
                    THEN /\ jobs'[j].status = "COMPLETED"
                         /\ jobs'[j].stage = "COMPLETED"
                         /\ jobs'[j].progress = STAGE_PROGRESS("COMPLETED")
                    ELSE /\ jobs'[j].status = "FAILED"
                         /\ jobs'[j].error # NoError
               /\ j = TopicJob =>
                    \A c \in Range(listeners["job"]) :
                      /\ NewItems(c) # << >>
                      /\ Last(NewItems(c)) = Item(published'["job"],
                                                  JobUpdate(jobs'[j]))
                      /\ IF ResultReady(jobs[j], rc, files)
                           THEN Len(SelectSeq(AllButLast(NewItems(c)),
                                              IsCompleted)) = 1
                           ELSE SelectSeq(NewItems(c), IsCompleted) = << >>]_vars
  /\ [][\A c \in Clients :
          SelectSeq(NewItems(c), IsCompleted) # << >>
            => \E j \in JobIds, rc \in ReturnCodes, files \in SUBSET Paths :
                 /\ RunFinalize(j, rc, files)
                 /\ ResultReady(jobs[j], rc, files)]_vars

\* A subscriber of the job has taken job.completed from its queue and the
\* last job.update, with the COMPLETED job, is the one item of its queue.
C26_Witness ==
  \E c \in Range(listeners["job"]) :
    /\ jobs[TopicJob].status = "COMPLETED"
    /\ received["job"][c] # << >>
    /\ IsCompleted(Last(received["job"][c]))
    /\ queue["job"][c] = << Item(published["job"], JobUpdate(jobs[TopicJob])) >>

\* the items of the lines and the log entries in list, by their numbers:
\* in a long run the lines and entries are numbered as they are read, and
\* the messages of the supervisor have the number 0
Numbers(list) ==
  LET Numbered(item) == item.message # 0
      read == SelectSeq(list, Numbered)
  IN [i \in DOMAIN read |-> read[i].message]

\* the last n of the numbers 1..last, in their order
LastNumbers(last, n) == [i \in 1..n |-> last - n + i]

\* the items of the lines of the streams in list
StreamLines(list) ==
  LET IsStreamLine(item) == item.source \in Sources
  IN SelectSeq(list, IsStreamLine)

\* C25: after any number of output lines, log entries and messages of the
\* supervisor, stdout_tail holds at most 300 lines and activity at most 400
\* items, in memory and in the store, and each holds the entries appended
\* last, in the order they were appended in: the lines and entries of
\* activity are the last ones read, none missing between them, and all of
\* them while activity holds fewer than 400 items; stdout_tail is the last
\* 300 of the lines of the streams, or all of them.
C25_TailsHoldTheLatest ==
  \A j \in DOMAIN jobs :
    /\ Len(jobs[j].stdout_tail) <= StdoutTailMax
    /\ Len(jobs[j].activity) <= ActivityMax
    /\ disk[j] = jobs[j]
    /\ LET read == Numbers(jobs[j].activity)
       IN /\ read = LastNumbers(events, Len(read))
          /\ Len(jobs[j].activity) < ActivityMax => Len(read) = events
    /\ jobs[j].stdout_tail
         = LastItems(StreamLines(jobs[j].activity), StdoutTailMax)
    /\ \/ Len(jobs[j].activity) < ActivityMax
       \/ Len(StreamLines(jobs[j].activity)) >= StdoutTailMax

\* Both lists of the running job are at their caps and have lost their
\* first entries; a log entry, a line of stderr and a message of the
\* supervisor are among the last four items of activity.
C25_Witness ==
  LET job == jobs[TopicJob]
      last == SubSeq(job.activity, ActivityMax - 3, ActivityMax)
  IN /\ Len(job.stdout_tail) = StdoutTailMax
     /\ Len(job.activity) = ActivityMax
     /\ job.stdout_tail[1].message > 1
     /\ job.activity[1].message > 1
     /\ \E i, k, m \in DOMAIN last :
          /\ last[i].source = "log"
          /\ last[k].source = "stderr"
          /\ last[m].source = "system"

\* C39: subscribe(job_id) by a new subscriber adds no event to the queue of
\* a subscriber the job already has: the snapshot job.update goes to the
\* new queue only.
C39_SnapshotToNewQueueOnly ==
  [][\A c \in Clients :
       StreamSubscribe(c)
         => \A d \in Range(listeners["job"]) :
              queue'["job"][d] = queue["job"][d]]_vars

(***************************************************************************)
(* The Store's claims.                                                     *)
(***************************************************************************)
\* the version load_jobs or load_sessions returns for an entity, 0 for none
LoadedVersion(d, id) ==
  IF id \in DOMAIN Loaded(d) THEN Loaded(d)[id] ELSE 0

\* C23: if the process crashes at any point inside a save, before, during or
\* after the write of the temporary file, before or after the rename, a load
\* that follows returns for the entity its version saved before or the whole
\* new one, never a part of one: every load succeeds, the version it returns
\* for an entity changes only at the rename, to the version being saved, and
\* it returns the entities of the .json files only, never one for a
\* .json.tmp file left behind.
C23_LoadSeesOldOrNew ==
  /\ [](\A d \in StoreDirs :
          /\ ~LoadRaises(d)
          /\ DOMAIN Loaded(d)
               = { id \in StoreIds(d) :
                     EntityFile(d, id) \in DOMAIN store_files })
  /\ [][\A d \in StoreDirs : \A id \in StoreIds(d) :
          \/ LoadedVersion(d, id)' = LoadedVersion(d, id)
          \/ /\ saving = [pc |-> "written", dir |-> d, id |-> id,
                          version |-> LoadedVersion(d, id)']
             /\ saving' = NotSaving]_vars

\* After crashes: a job has its first version in its file and a whole
\* document of its second in the temporary file left behind, and a session
\* that was never saved has half a document in a temporary file.
C23_Witness ==
  /\ saving = NotSaving
  /\ \E id \in StoreIds("jobs") :
       /\ LoadedVersion("jobs", id) = 1
       /\ TmpFile("jobs", id) \in DOMAIN store_files
       /\ store_files[TmpFile("jobs", id)] = json_dump(id, 2)
  /\ \E id \in StoreIds("chats") :
       /\ LoadedVersion("chats", id) = 0
       /\ TmpFile("chats", id) \in DOMAIN store_files
       /\ Len(store_files[TmpFile("chats", id)]) = 1

(***************************************************************************)
(* The retrieval's claims.                                                 *)
(***************************************************************************)
\* C30: _extract_pdf_text(path, start_index, end_index), called with a
\* start_index greater than the number of pages of the document, returns the
\* empty string, for every end_index.
C30_PastTheLastPageIsEmpty ==
  ( /\ call.fn = "_extract_pdf_text"
    /\ call.done
    /\ call.start_index > Len(call.pages) )
    => call.result = << >>

(***************************************************************************)
(* The claims about the selection of nodes.                                *)
(***************************************************************************)
\* the strings of node_list that are valid ids, each at its first occurrence
RECURSIVE ValidFirstOccurrences(_, _)
ValidFirstOccurrences(node_list, valid) ==
  IF node_list = << >> THEN << >>
  ELSE LET front == ValidFirstOccurrences(SubSeq(node_list, 1, Len(node_list) - 1), valid)
           last == str(node_list[Len(node_list)])
       IN IF last \in valid /\ last \notin Range(front)
            THEN Append(front, last) ELSE front

\* C31: the list parse_selection_response returns holds only valid ids,
\* holds none twice, has at most max_nodes elements and is the first
\* max_nodes elements of node_list filtered to the valid ids and
\* deduplicated, in the order of first occurrence.
C31_SelectionFilteredDedupedCapped ==
  (call.fn = "parse_selection_response" /\ call.done) =>
    /\ Range(call.result) \subseteq call.valid_node_ids
    /\ \A a, b \in 1..Len(call.result) : call.result[a] = call.result[b] => a = b
    /\ Len(call.result) <= call.max_nodes
    /\ call.result = FirstItems(ValidFirstOccurrences(call.node_list, call.valid_node_ids),
                                call.max_nodes)


(***************************************************************************)
(* The claims about the stage signals.                                     *)
(***************************************************************************)
\* the stages one of whose keywords occurs in the lower-cased text
Matched(text) ==
  { s \in JobStage :
      \E i \in DOMAIN _SIGNAL_RULES :
        /\ _SIGNAL_RULES[i].stage = s
        /\ \E w \in Range(lower(text)) : w \in _SIGNAL_RULES[i].keywords }

\* the stages matched in the serialised entry, in a value or in a key
MatchedInEntry(entry) ==
  IF entry.dict
    THEN Matched(json_dumps(entry.items))
           \cup UNION { Matched(entry.items[i][1]) \cup Matched(entry.items[i][2]) :
                          i \in DOMAIN entry.items }
    ELSE Matched(entry.text)

\* the stage of the highest rank of a set of stages, "None" of the empty set
Highest(stages) ==
  IF stages = {} THEN "None"
  ELSE CHOOSE s \in stages : \A t \in stages : stage_rank(t) <= stage_rank(s)

\* C32: stage_from_text returns the highest-ranked stage one of whose
\* keywords occurs in the lower-cased line, and nothing when none occurs;
\* stage_from_log_entry returns the highest-ranked stage matched in the
\* serialised entry, its values or its keys; neither returns QUEUED or
\* COMPLETED.
C32_HighestRankedSignalWins ==
  /\ (call.fn = "stage_from_text" /\ call.done) =>
       /\ call.result = Highest(Matched(call.text))
       /\ call.result \notin {"QUEUED", "COMPLETED"}
  /\ (call.fn = "stage_from_log_entry" /\ call.done) =>
       /\ call.result = Highest(MatchedInEntry(call.entry))
       /\ call.result \notin {"QUEUED", "COMPLETED"}

\* a line with an early and a late signal has yielded the late stage
C32_Witness ==
  /\ call.fn = "stage_from_text" /\ call.done
  /\ call.text = << "Parsing PDF", "Tree structure saved to" >>
  /\ call.result = "FINALIZING"


(***************************************************************************)
(* The claims about the lock of the Chat Supervisor and the stream of a    *)
(* run.                                                                    *)
(***************************************************************************)
\* a step of a locked section of the Chat Supervisor
LockedSection ==
  \/ \E r \in LockRuns, ok \in BOOLEAN : StartLocked(r, ok)
  \/ DeleteLocked
  \/ \E c \in Clients : SubscribeLocked(c)
  \/ \E c \in Clients : UnsubscribeLocked(c)
  \/ \E r \in LockRuns, l \in BOOLEAN : PipeSetup(r, l)
  \/ \E r \in LockRuns, ok \in BOOLEAN, c \in BOOLEAN : PipeRecord(r, ok, c)
  \/ \E r \in LockRuns, d \in Chunks : on_delta(r, d)
  \/ \E r \in LockRuns, ok \in BOOLEAN, c \in BOOLEAN : PipeFinish(r, ok, c)
  \/ \E r \in LockRuns, ok \in BOOLEAN : PipeFail(r, ok)

\* C35: the pipeline of a run does not hold the lock while it waits for
\* select_nodes or for a chunk of stream_answer; a session (its messages,
\* its runs, its active run, the content on_delta appends to) changes only
\* in a step of the task that holds the lock; and whoever holds the lock
\* can finish its section at once, so the calls on another session complete
\* while a run waits on the LLM.
C35_NoLockWhileWaitingOnTheLLM ==
  /\ [](\A r \in Ids : pipe[r].pc \in Waiting => ~Holds("_run_pipeline", r))
  /\ [](~Free => ENABLED LockedSection)
  /\ [][sessions' # sessions => (~Free /\ LockedSection)]_vars

\* the runs of the two sessions wait on the LLM at once, one for
\* select_nodes and one for a chunk, after a chunk was appended; the lock is
\* free
C35_Witness ==
  /\ pipe[TopicRun].pc = "selecting"
  /\ pipe[TopicRun + 1].pc = "streaming"
  /\ pipe[TopicRun].session # pipe[TopicRun + 1].session
  /\ "chat.answer.delta" \in Range(chatEvents[TopicRun + 1])
  /\ Free

\* the names of the events of a queue
EventNames(q) == { q[i].event : i \in DOMAIN q }

\* C40: a queue subscribed with the run id start_message_run returned never
\* holds chat.run.started, and the stream that reads it never gets it; once
\* the run has finished, a new queue of its key is empty and no queue of
\* the key is put an event on.
C40_NoRunStartedOnTheStream ==
  /\ [](\A c \in Clients :
          "chat.run.started" \notin EventNames(queue["chat"][c])
                                      \cup EventNames(received["chat"][c]))
  /\ [][pipe[TopicRun].pc = "ended" =>
          \A c \in Range(listeners'["chat"]) :
            IF c \in Range(listeners["chat"])
              THEN Len(queue'["chat"][c]) <= Len(queue["chat"][c])
              ELSE queue'["chat"][c] = << >>]_vars

\* run TopicRun has finished; a client that subscribed while it ran has read
\* its chat.run.completed, and a client that subscribed since has an empty
\* queue and has read nothing
C40_Witness ==
  /\ pipe[TopicRun].pc = "ended"
  /\ \E c, d \in Range(listeners["chat"]) :
       /\ "chat.run.completed" \in EventNames(received["chat"][c])
       /\ queue["chat"][d] = << >>
       /\ received["chat"][d] = << >>


====
